---- MODULE Spec2Model ----
(***************************************************************************)
(* Project management API: the in-memory store (projects.store.js), the    *)
(* validators (projects.validator.js) and the service layer                *)
(* (services/projects.service.js) with its status state machine, soft      *)
(* delete and filtered/sorted listing.                                     *)
(*                                                                         *)
(* JavaScript values are tagged records [t, v].  Text that the code works  *)
(* on character by character (name, clientName, search) is a sequence of   *)
(* UTF-16 code units; enumerated strings and dates are TLA+ strings.       *)
(* Timestamps (new Date().toISOString()) are natural numbers: the ISO      *)
(* format is fixed-width, so its string order is the numeric order.        *)
(***************************************************************************)
EXTENDS Integers, Sequences, FiniteSets, TLC

VARIABLES projects, now, last, deletedOk, tasks

vars == <<projects, now, last, deletedOk, tasks>>

(* ------------------------------ bounds --------------------------------- *)

MaxProjects == 2

MaxTime == 1

(* --------------------------- JavaScript values ------------------------- *)

Undefined == [t |-> "undefined", v |-> ""]

Null == [t |-> "null", v |-> ""]

Num(x) == [t |-> "number", v |-> x]

Bool(x) == [t |-> "boolean", v |-> x]

S(x) == [t |-> "string", v |-> x]

UndefinedText == [t |-> "undefined", v |-> <<>>]

NumText == [t |-> "number", v |-> <<53>>]

T(x) == [t |-> "string", v |-> x]

\* JS truthiness of a tagged value whose payload is a TLA+ string
Truthy(x) ==
  CASE x.t = "string" -> x.v # ""
    [] x.t = "number" -> x.v # "0"
    [] x.t = "boolean" -> x.v = "true"
    [] OTHER -> FALSE

\* JS truthiness of a tagged value whose payload is a sequence of code units
TruthyText(x) ==
  CASE x.t = "string" -> x.v # <<>>
    [] x.t = "number" -> x.v # <<48>>
    [] x.t = "array" -> TRUE
    [] OTHER -> FALSE

(* ------------------------------ strings -------------------------------- *)

\* mutant: the search compares case-sensitively
ToLowerCase_Identity(s) == s

\* String.prototype.toLowerCase on code units (Latin capital letters)
ToLowerCase(s) ==
  [i \in DOMAIN s |-> IF s[i] \in 65..90 THEN s[i] + 32 ELSE s[i]]

WhiteSpace == {9, 10, 11, 12, 13, 32}

RECURSIVE TrimStart(_)
TrimStart(s) ==
  IF s # <<>> /\ Head(s) \in WhiteSpace THEN TrimStart(Tail(s)) ELSE s

RECURSIVE TrimEnd(_)
TrimEnd(s) ==
  IF s # <<>> /\ s[Len(s)] \in WhiteSpace
    THEN TrimEnd(SubSeq(s, 1, Len(s) - 1))
    ELSE s

\* String.prototype.trim
Trim(s) == TrimEnd(TrimStart(s))

\* String.prototype.includes
Includes(s, term) ==
  \E i \in 0..(Len(s) - Len(term)) : SubSeq(s, i + 1, i + Len(term)) = term

\* the code units of the date strings the model uses
CodeUnits(d) ==
  CASE d = "2026-01-01" -> <<50, 48, 50, 54, 45, 48, 49, 45, 48, 49>>
    [] d = "2026-06-01" -> <<50, 48, 50, 54, 45, 48, 54, 45, 48, 49>>
    [] d = "garbage" -> <<103, 97, 114, 98, 97, 103, 101>>
    [] OTHER -> <<>>

\* JS relational < on strings: lexicographic on code units
RECURSIVE SeqLess(_, _)
SeqLess(a, b) ==
  IF b = <<>> THEN FALSE
  ELSE IF a = <<>> THEN TRUE
  ELSE IF Head(a) < Head(b) THEN TRUE
  ELSE IF Head(a) > Head(b) THEN FALSE
  ELSE SeqLess(Tail(a), Tail(b))

(* ------------------------------- dates --------------------------------- *)

NaN == -1

\* new Date(value).getTime() for the date strings the model uses, in days
\* since 1970-01-01; anything else does not parse
DateValue(d) ==
  CASE d = "2026-01-01" -> 20454
    [] d = "2026-06-01" -> 20605
    [] OTHER -> NaN

isValidISODate(value) ==
  IF value.t # "string" THEN FALSE ELSE DateValue(value.v) # NaN

(* ------------------------------- errors -------------------------------- *)

\* new AppError(message, statusCode, code), as the service's caller sees it
AppError(message, statusCode, code) ==
  [kind |-> code, statusCode |-> statusCode, message |-> message,
   ret |-> <<>>, calls |-> <<>>]

\* an exception that is not an AppError (a TypeError of the runtime, the
\* SyntaxError of the JSON body parser): it has a name and a message, no code
NativeError(name, message) ==
  [kind |-> name, statusCode |-> 0, message |-> message,
   ret |-> <<>>, calls |-> <<>>]

NativeErrorNames == {"TypeError", "SyntaxError"}

\* err instanceof AppError, for a thrown value
InstanceOfAppError(err) == err.kind \notin NativeErrorNames \cup {"OK"}

\* a service call that returned: ret holds the returned record(s), calls the
\* Store functions the call invoked, in order
Returned(ret, calls) ==
  [kind |-> "OK", statusCode |-> 200, message |-> <<>>,
   ret |-> ret, calls |-> calls]

(* ----------------------------- validators ------------------------------ *)

VALID_STATUSES == <<"active", "on_hold", "completed">>

\* Array.prototype.includes on VALID_STATUSES (strict equality: only a string
\* can be found)
IsValidStatus(x) ==
  x.t = "string" /\ \E i \in DOMAIN VALID_STATUSES : VALID_STATUSES[i] = x.v

\* x || y
OrElse(x, y) == IF Truthy(x) THEN x ELSE y

\* mutant: the name is not trimmed before it is tested
NameErrors_NoTrim(body) ==
  IF \/ ~TruthyText(body.name)
     \/ body.name.t # "string"
    THEN <<"name is required and must be a non-empty string">>
    ELSE <<>>

NameErrors(body) ==
  IF \/ ~TruthyText(body.name)
     \/ body.name.t # "string"
     \/ Trim(body.name.v) = <<>>
    THEN <<"name is required and must be a non-empty string">>
    ELSE <<>>

ClientNameErrors(body) ==
  IF \/ ~TruthyText(body.clientName)
     \/ body.clientName.t # "string"
     \/ Trim(body.clientName.v) = <<>>
    THEN <<"clientName is required and must be a non-empty string">>
    ELSE <<>>

\* mutant: the status is checked only when it is truthy
StatusErrors_IfTruthy(body) ==
  IF Truthy(body.status) /\ ~IsValidStatus(body.status)
    THEN <<"status must be one of: active, on_hold, completed">>
    ELSE <<>>

StatusErrors(body) ==
  IF body.status # Undefined /\ ~IsValidStatus(body.status)
    THEN <<"status must be one of: active, on_hold, completed">>
    ELSE <<>>

StartDateErrors(body) ==
  IF ~Truthy(body.startDate)
    THEN <<"startDate is required">>
    ELSE IF ~isValidISODate(body.startDate)
      THEN <<"startDate must be a valid ISO date string">>
      ELSE <<>>

\* mutant: an endDate equal to the startDate is rejected too
EndDateErrors_Strict(body) ==
  IF body.endDate # Undefined /\ body.endDate # Null
    THEN IF ~isValidISODate(body.endDate)
      THEN <<"endDate must be a valid ISO date string">>
      ELSE IF Truthy(body.startDate) /\ isValidISODate(body.startDate)
        THEN IF DateValue(body.endDate.v) <= DateValue(body.startDate.v)
          THEN <<"endDate cannot be before startDate">>
          ELSE <<>>
        ELSE <<>>
    ELSE <<>>

EndDateErrors(body) ==
  IF body.endDate # Undefined /\ body.endDate # Null
    THEN IF ~isValidISODate(body.endDate)
      THEN <<"endDate must be a valid ISO date string">>
      ELSE IF Truthy(body.startDate) /\ isValidISODate(body.startDate)
        THEN IF DateValue(body.endDate.v) < DateValue(body.startDate.v)
          THEN <<"endDate cannot be before startDate">>
          ELSE <<>>
        ELSE <<>>
    ELSE <<>>

\* mutant: fail-fast, the first violated rule is the only one reported
CreateErrors_FailFast(body) ==
  LET all == NameErrors(body) \o ClientNameErrors(body) \o StatusErrors(body)
               \o StartDateErrors(body) \o EndDateErrors(body)
  IN IF all = <<>> THEN <<>> ELSE <<Head(all)>>

\* the errors array of validateCreateProject, in push order; the thrown
\* message is its entries joined by '; '
CreateErrors(body) ==
  NameErrors(body) \o ClientNameErrors(body) \o StatusErrors(body)
    \o StartDateErrors(body) \o EndDateErrors(body)

\* validateCreateProject: ok = FALSE stands for the thrown AppError
validateCreateProject(body) ==
  IF Len(CreateErrors(body)) > 0
    THEN [ok |-> FALSE,
          error |-> AppError(CreateErrors(body), 400, "VALIDATION_ERROR"),
          data |-> <<>>]
    ELSE [ok |-> TRUE,
          error |-> <<>>,
          data |-> [name |-> Trim(body.name.v),
                    clientName |-> Trim(body.clientName.v),
                    status |-> OrElse(body.status, S("active")),
                    startDate |-> body.startDate,
                    endDate |-> OrElse(body.endDate, Null)]]

\* mutant: the status only has to be present
validateStatusUpdate_RequiredOnly(body) ==
  IF ~Truthy(body.status)
    THEN [ok |-> FALSE,
          error |-> AppError(
            <<"status is required and must be one of: ",
              "active, on_hold, completed">>, 400, "VALIDATION_ERROR"),
          status |-> ""]
    ELSE [ok |-> TRUE, error |-> <<>>, status |-> body.status.v]

\* validateStatusUpdate: ok = FALSE stands for the thrown AppError
validateStatusUpdate(body) ==
  IF ~Truthy(body.status) \/ ~IsValidStatus(body.status)
    THEN [ok |-> FALSE,
          error |-> AppError(
            <<"status is required and must be one of: ",
              "active, on_hold, completed">>, 400, "VALIDATION_ERROR"),
          status |-> ""]
    ELSE [ok |-> TRUE, error |-> <<>>, status |-> body.status.v]

(* -------------------------------- store -------------------------------- *)

\* JSON.parse(JSON.stringify(obj)): a new object with the same own fields;
\* every field of a project is a string, a boolean or null, which the round
\* trip keeps
clone(obj) == [f \in DOMAIN obj |-> obj[f]]

\* mutant: the generator hands out the same value every time
randomUUID_Fixed(ps) == 1

\* crypto.randomUUID(): a value no stored record has; records are never
\* removed, so the position of the new record is such a value
randomUUID(ps) == Len(ps) + 1

\* mutant: createdAt and updatedAt come from two readings of the clock
StoreCreate_TwoClockReads(ps, t, projectData) ==
  LET project == [id |-> randomUUID(ps),
                  name |-> projectData.name,
                  clientName |-> projectData.clientName,
                  status |-> OrElse(projectData.status, S("active")).v,
                  startDate |-> projectData.startDate.v,
                  endDate |-> OrElse(projectData.endDate, Null),
                  isDeleted |-> FALSE,
                  createdAt |-> t,
                  updatedAt |-> t + 1]
  IN [store |-> Append(ps, project), ret |-> <<clone(project)>>]

\* projects.store.js create: the record set after the push, and the clone
StoreCreate(ps, t, projectData) ==
  LET project == [id |-> randomUUID(ps),
                  name |-> projectData.name,
                  clientName |-> projectData.clientName,
                  status |-> OrElse(projectData.status, S("active")).v,
                  startDate |-> projectData.startDate.v,
                  endDate |-> OrElse(projectData.endDate, Null),
                  isDeleted |-> FALSE,
                  createdAt |-> t,
                  updatedAt |-> t]
  IN [store |-> Append(ps, project), ret |-> <<clone(project)>>]

\* Array.prototype.findIndex((p) => p.id === id), 1-based; 0 stands for -1
FindIndex(ps, id) ==
  IF \E i \in DOMAIN ps : ps[i].id = id
    THEN CHOOSE i \in DOMAIN ps :
           ps[i].id = id /\ \A j \in 1..(i - 1) : ps[j].id # id
    ELSE 0

\* mutant: find((p) => p.id === id && !p.isDeleted)
StoreFindById_SkipDeleted(ps, id) ==
  IF FindIndex(ps, id) = 0 \/ ps[FindIndex(ps, id)].isDeleted
    THEN <<>> ELSE <<clone(ps[FindIndex(ps, id)])>>

\* projects.store.js findById: <<>> stands for null
StoreFindById(ps, id) ==
  IF FindIndex(ps, id) = 0 THEN <<>> ELSE <<clone(ps[FindIndex(ps, id)])>>

\* mutant: { ...project, ...updates }, updatedAt is not refreshed
Merge_KeepUpdatedAt(project, updates, t) ==
  [f \in (DOMAIN project) \cup (DOMAIN updates) |->
     IF f \in DOMAIN updates THEN updates[f] ELSE project[f]]

\* mutant: createdAt is stamped together with updatedAt
Merge_StampBoth(project, updates, t) ==
  [f \in (DOMAIN project) \cup (DOMAIN updates) \cup {"updatedAt"} |->
     IF f \in {"createdAt", "updatedAt"} THEN t
     ELSE IF f \in DOMAIN updates THEN updates[f]
     ELSE project[f]]

\* { ...project, ...updates, updatedAt: now }
Merge(project, updates, t) ==
  [f \in (DOMAIN project) \cup (DOMAIN updates) \cup {"updatedAt"} |->
     IF f = "updatedAt" THEN t
     ELSE IF f \in DOMAIN updates THEN updates[f]
     ELSE project[f]]

\* mutant: the merged record is returned but not written back
StoreUpdate_NoWrite(ps, t, id, updates) ==
  LET index == FindIndex(ps, id) IN
  IF index = 0
    THEN [store |-> ps, ret |-> <<>>]
    ELSE [store |-> ps, ret |-> <<clone(Merge(ps[index], updates, t))>>]

\* projects.store.js update: <<>> stands for null
StoreUpdate(ps, t, id, updates) ==
  LET index == FindIndex(ps, id) IN
  IF index = 0
    THEN [store |-> ps, ret |-> <<>>]
    ELSE LET merged == Merge(ps[index], updates, t)
         IN [store |-> [ps EXCEPT ![index] = merged],
             ret |-> <<clone(merged)>>]

\* aVal < bVal for the values of the sort field
FieldLess(a, b, sortField) ==
  IF sortField = "startDate"
    THEN SeqLess(CodeUnits(a.startDate), CodeUnits(b.startDate))
    ELSE a.createdAt < b.createdAt

\* mutant: the order parameter is not looked at, the result is descending
Compare_AlwaysDesc(a, b, sortField, order) ==
  IF FieldLess(a, b, sortField) THEN 1
  ELSE IF FieldLess(b, a, sortField) THEN -1
  ELSE 0

\* mutant: the comparator never answers 0, equal values count as greater
Compare_NoTie(a, b, sortField, order) ==
  IF FieldLess(a, b, sortField) THEN (IF order = S("asc") THEN -1 ELSE 1)
  ELSE (IF order = S("asc") THEN 1 ELSE -1)

\* the comparator handed to result.sort
Compare(a, b, sortField, order) ==
  IF FieldLess(a, b, sortField) THEN (IF order = S("asc") THEN -1 ELSE 1)
  ELSE IF FieldLess(b, a, sortField) THEN (IF order = S("asc") THEN 1 ELSE -1)
  ELSE 0

\* Array.prototype.sort is stable: x goes behind every element that does
\* not compare greater than it
RECURSIVE InsertSorted(_, _, _, _)
InsertSorted(s, x, sortField, order) ==
  IF s = <<>> THEN <<x>>
  ELSE IF Compare(Head(s), x, sortField, order) > 0 THEN <<x>> \o s
  ELSE <<Head(s)>> \o InsertSorted(Tail(s), x, sortField, order)

RECURSIVE SortBy(_, _, _)
SortBy(s, sortField, order) ==
  IF s = <<>> THEN <<>>
  ELSE InsertSorted(SortBy(SubSeq(s, 1, Len(s) - 1), sortField, order),
                    s[Len(s)], sortField, order)

\* projects.store.js findAll, const term = search.toLowerCase(): a truthy
\* search that is not a string has no such method
StoreFindAllThrows(options) ==
  TruthyText(options.search) /\ options.search.t # "string"

\* mutant: the scan does not start from the records that are not deleted
StoreFindAll_WithDeleted(ps, options) ==
  LET sort == IF options.sort = Undefined THEN S("createdAt") ELSE options.sort
      order == IF options.order = Undefined THEN S("desc") ELSE options.order
      HasStatus(p) == S(p.status) = options.status
      term == ToLowerCase(options.search.v)
      Matches(p) == \/ Includes(ToLowerCase(p.name), term)
                    \/ Includes(ToLowerCase(p.clientName), term)
      r2 == IF Truthy(options.status) THEN SelectSeq(ps, HasStatus) ELSE ps
      r3 == IF TruthyText(options.search) THEN SelectSeq(r2, Matches) ELSE r2
      sortField == IF sort \in {S("createdAt"), S("startDate")}
                     THEN sort.v ELSE "createdAt"
      sorted == SortBy(r3, sortField, order)
  IN [i \in DOMAIN sorted |-> clone(sorted[i])]

\* mutant: order = 'asc' is the default of findAll
StoreFindAll_AscByDefault(ps, options) ==
  LET sort == IF options.sort = Undefined THEN S("createdAt") ELSE options.sort
      order == IF options.order = Undefined THEN S("asc") ELSE options.order
      NotDeleted(p) == ~p.isDeleted
      HasStatus(p) == S(p.status) = options.status
      term == ToLowerCase(options.search.v)
      Matches(p) == \/ Includes(ToLowerCase(p.name), term)
                    \/ Includes(ToLowerCase(p.clientName), term)
      r1 == SelectSeq(ps, NotDeleted)
      r2 == IF Truthy(options.status) THEN SelectSeq(r1, HasStatus) ELSE r1
      r3 == IF TruthyText(options.search) THEN SelectSeq(r2, Matches) ELSE r2
      sortField == IF sort \in {S("createdAt"), S("startDate")}
                     THEN sort.v ELSE "createdAt"
      sorted == SortBy(r3, sortField, order)
  IN [i \in DOMAIN sorted |-> clone(sorted[i])]

\* projects.store.js findAll; SelectSeq is Array.prototype.filter
StoreFindAll(ps, options) ==
  LET sort == IF options.sort = Undefined THEN S("createdAt") ELSE options.sort
      order == IF options.order = Undefined THEN S("desc") ELSE options.order
      NotDeleted(p) == ~p.isDeleted
      HasStatus(p) == S(p.status) = options.status
      term == ToLowerCase(options.search.v)
      Matches(p) == \/ Includes(ToLowerCase(p.name), term)
                    \/ Includes(ToLowerCase(p.clientName), term)
      r1 == SelectSeq(ps, NotDeleted)
      r2 == IF Truthy(options.status) THEN SelectSeq(r1, HasStatus) ELSE r1
      r3 == IF TruthyText(options.search) THEN SelectSeq(r2, Matches) ELSE r2
      sortField == IF sort \in {S("createdAt"), S("startDate")}
                     THEN sort.v ELSE "createdAt"
      sorted == SortBy(r3, sortField, order)
  IN [i \in DOMAIN sorted |-> clone(sorted[i])]

\* mutant: projects.sort(...), the stored array is the one that is sorted
AfterFindAll_SortInPlace(ps, options) ==
  LET sort == IF options.sort = Undefined THEN S("createdAt") ELSE options.sort
      order == IF options.order = Undefined THEN S("desc") ELSE options.order
      sortField == IF sort \in {S("createdAt"), S("startDate")}
                     THEN sort.v ELSE "createdAt"
  IN SortBy(ps, sortField, order)

\* projects.store.js findAll, the stored array after the call: filter
\* returns a new array and sort reorders that one
AfterFindAll(ps, options) == ps

(* ------------------------------- service ------------------------------- *)

\* mutant: completed can be reopened
ALLOWED_TRANSITIONS_Reopen ==
  [c \in {"active", "on_hold", "completed"} |->
     CASE c = "active" -> <<"on_hold", "completed">>
       [] c = "on_hold" -> <<"active", "completed">>
       [] c = "completed" -> <<"active">>]

ALLOWED_TRANSITIONS ==
  [c \in {"active", "on_hold", "completed"} |->
     CASE c = "active" -> <<"on_hold", "completed">>
       [] c = "on_hold" -> <<"active", "completed">>
       [] c = "completed" -> <<>>]

\* mutant: an empty allowlist allows everything
SeqIncludes_OrEmpty(seq, x) == seq = <<>> \/ \E i \in DOMAIN seq : seq[i] = x

\* allowed.includes(newStatus)
SeqIncludes(seq, x) == \E i \in DOMAIN seq : seq[i] = x

\* an outcome with the trace of the Store functions called so far
WithCalls(out, calls) == [out EXCEPT !.calls = calls]

\* services/projects.service.js createProject
createProject(ps, t, body) ==
  LET projectData == validateCreateProject(body) IN
  IF ~projectData.ok
    THEN [out |-> projectData.error, store |-> ps]
    ELSE LET created == StoreCreate(ps, t, projectData.data)
         IN [out |-> Returned(created.ret, <<"create">>),
             store |-> created.store]

\* mutant: the sort field is not validated, findAll falls back to createdAt
listProjects_NoSortCheck(ps, query) ==
  IF Truthy(query.status) /\ ~IsValidStatus(query.status)
    THEN [out |-> AppError(<<"Invalid status filter: ", query.status.v,
                             ". Must be one of: ",
                             "active, on_hold, completed">>,
                           400, "VALIDATION_ERROR"),
          store |-> ps]
  ELSE IF Truthy(query.order) /\ query.order \notin {S("asc"), S("desc")}
    THEN [out |-> AppError(<<"Invalid order: ", query.order.v,
                             ". Must be 'asc' or 'desc'">>,
                           400, "VALIDATION_ERROR"),
          store |-> ps]
  ELSE [out |-> Returned(StoreFindAll(ps, query), <<"findAll">>),
        store |-> ps]

\* services/projects.service.js listProjects
listProjects(ps, query) ==
  IF Truthy(query.status) /\ ~IsValidStatus(query.status)
    THEN [out |-> AppError(<<"Invalid status filter: ", query.status.v,
                             ". Must be one of: ",
                             "active, on_hold, completed">>,
                           400, "VALIDATION_ERROR"),
          store |-> ps]
  ELSE IF Truthy(query.sort) /\ query.sort \notin {S("createdAt"), S("startDate")}
    THEN [out |-> AppError(<<"Invalid sort field: ", query.sort.v,
                             ". Must be one of: ", "createdAt, startDate">>,
                           400, "VALIDATION_ERROR"),
          store |-> ps]
  ELSE IF Truthy(query.order) /\ query.order \notin {S("asc"), S("desc")}
    THEN [out |-> AppError(<<"Invalid order: ", query.order.v,
                             ". Must be 'asc' or 'desc'">>,
                           400, "VALIDATION_ERROR"),
          store |-> ps]
  ELSE IF StoreFindAllThrows(query)
    THEN [out |-> WithCalls(
                    NativeError("TypeError",
                                <<"search.toLowerCase is not a function">>),
                    <<"findAll">>),
          store |-> ps]
  ELSE [out |-> Returned(StoreFindAll(ps, query), <<"findAll">>),
        store |-> AfterFindAll(ps, query)]

\* mutant: a soft-deleted record is returned
getProjectById_NoDeletedCheck(ps, id) ==
  LET project == StoreFindById(ps, id) IN
  IF project = <<>>
    THEN [out |-> WithCalls(
                    AppError(<<"Project with id '", ToString(id),
                               "' not found">>, 404, "PROJECT_NOT_FOUND"),
                    <<"findById">>),
          store |-> ps]
    ELSE [out |-> Returned(project, <<"findById">>), store |-> ps]

\* mutant: a soft-deleted record is reported as gone, not as not found
getProjectById_Gone(ps, id) ==
  LET project == StoreFindById(ps, id) IN
  IF project = <<>>
    THEN [out |-> WithCalls(
                    AppError(<<"Project with id '", ToString(id),
                               "' not found">>, 404, "PROJECT_NOT_FOUND"),
                    <<"findById">>),
          store |-> ps]
  ELSE IF project[1].isDeleted
    THEN [out |-> WithCalls(
                    AppError(<<"Project with id '", ToString(id),
                               "' was deleted">>, 410, "PROJECT_DELETED"),
                    <<"findById">>),
          store |-> ps]
  ELSE [out |-> Returned(project, <<"findById">>), store |-> ps]

\* services/projects.service.js getProjectById
getProjectById(ps, id) ==
  LET project == StoreFindById(ps, id) IN
  IF project = <<>> \/ project[1].isDeleted
    THEN [out |-> WithCalls(
                    AppError(<<"Project with id '", ToString(id),
                               "' not found">>, 404, "PROJECT_NOT_FOUND"),
                    <<"findById">>),
          store |-> ps]
    ELSE [out |-> Returned(project, <<"findById">>), store |-> ps]

\* mutant: the same-status request is checked against the allowlist too
updateProjectStatus_NoShortcut(ps, t, id, body) ==
  LET newStatus == validateStatusUpdate(body)
      found == getProjectById(ps, id)
      project == found.out.ret[1]
      currentStatus == project.status
      allowed == ALLOWED_TRANSITIONS[currentStatus]
      updated == StoreUpdate(ps, t, id, [status |-> newStatus.status])
  IN
  IF ~newStatus.ok THEN [out |-> newStatus.error, store |-> ps]
  ELSE IF found.out.kind # "OK" THEN found
  ELSE IF \/ currentStatus \notin DOMAIN ALLOWED_TRANSITIONS
          \/ ~SeqIncludes(allowed, newStatus.status)
    THEN [out |-> WithCalls(
                    AppError(<<"Cannot transition from '", currentStatus,
                               "' to '", newStatus.status, "'">>,
                             400, "INVALID_STATUS_TRANSITION"),
                    <<"findById">>),
          store |-> ps]
  ELSE [out |-> Returned(updated.ret, <<"findById", "update">>),
        store |-> updated.store]

\* mutant: the record is fetched before the body is validated
updateProjectStatus_LookupFirst(ps, t, id, body) ==
  LET newStatus == validateStatusUpdate(body)
      found == getProjectById(ps, id)
      project == found.out.ret[1]
      currentStatus == project.status
      allowed == ALLOWED_TRANSITIONS[currentStatus]
      updated == StoreUpdate(ps, t, id, [status |-> newStatus.status])
  IN
  IF found.out.kind # "OK" THEN found
  ELSE IF ~newStatus.ok
    THEN [out |-> WithCalls(newStatus.error, <<"findById">>), store |-> ps]
  ELSE IF currentStatus = newStatus.status
    THEN [out |-> Returned(<<project>>, <<"findById">>), store |-> ps]
  ELSE IF \/ currentStatus \notin DOMAIN ALLOWED_TRANSITIONS
          \/ ~SeqIncludes(allowed, newStatus.status)
    THEN [out |-> WithCalls(
                    AppError(<<"Cannot transition from '", currentStatus,
                               "' to '", newStatus.status, "'">>,
                             400, "INVALID_STATUS_TRANSITION"),
                    <<"findById">>),
          store |-> ps]
  ELSE [out |-> Returned(updated.ret, <<"findById", "update">>),
        store |-> updated.store]

\* services/projects.service.js updateProjectStatus
updateProjectStatus(ps, t, id, body) ==
  LET newStatus == validateStatusUpdate(body)
      found == getProjectById(ps, id)
      project == found.out.ret[1]
      currentStatus == project.status
      allowed == ALLOWED_TRANSITIONS[currentStatus]
      updated == StoreUpdate(ps, t, id, [status |-> newStatus.status])
  IN
  IF ~newStatus.ok THEN [out |-> newStatus.error, store |-> ps]
  ELSE IF found.out.kind # "OK" THEN found
  ELSE IF currentStatus = newStatus.status
    THEN [out |-> Returned(<<project>>, <<"findById">>), store |-> ps]
  ELSE IF \/ currentStatus \notin DOMAIN ALLOWED_TRANSITIONS
          \/ ~SeqIncludes(allowed, newStatus.status)
    THEN [out |-> WithCalls(
                    AppError(<<"Cannot transition from '", currentStatus,
                               "' to '", newStatus.status, "'">>,
                             400, "INVALID_STATUS_TRANSITION"),
                    <<"findById">>),
          store |-> ps]
  ELSE [out |-> Returned(updated.ret, <<"findById", "update">>),
        store |-> updated.store]

\* mutant: deleting a soft-deleted record restores it
deleteProject_Toggle(ps, t, id) ==
  LET project == StoreFindById(ps, id)
      updated == StoreUpdate(ps, t, id,
                             [isDeleted |-> ~project[1].isDeleted])
  IN
  IF project = <<>> THEN getProjectById(ps, id)
  ELSE [out |-> Returned(<<>>, <<"findById", "update">>),
        store |-> updated.store]

\* mutant: only the existence of the record is checked before the delete
deleteProject_NoCheck(ps, t, id) ==
  LET project == StoreFindById(ps, id)
      updated == StoreUpdate(ps, t, id, [isDeleted |-> TRUE])
  IN
  IF project = <<>> THEN getProjectById(ps, id)
  ELSE [out |-> Returned(<<>>, <<"findById", "update">>),
        store |-> updated.store]

\* mutant: a hard delete, the record is taken out of the record set
deleteProject_Hard(ps, t, id) ==
  LET found == getProjectById(ps, id)
      Other(p) == p.id # id
  IN
  IF found.out.kind # "OK" THEN found
  ELSE [out |-> Returned(<<>>, <<"findById", "update">>),
        store |-> SelectSeq(ps, Other)]

\* mutant: the flag is written before the record is looked up
deleteProject_WriteFirst(ps, t, id) ==
  LET found == getProjectById(ps, id)
      updated == StoreUpdate(ps, t, id, [isDeleted |-> TRUE])
  IN
  IF found.out.kind # "OK"
    THEN [out |-> WithCalls(found.out, <<"update", "findById">>),
          store |-> updated.store]
  ELSE [out |-> Returned(<<>>, <<"update", "findById">>),
        store |-> updated.store]

\* services/projects.service.js deleteProject
deleteProject(ps, t, id) ==
  LET found == getProjectById(ps, id)
      updated == StoreUpdate(ps, t, id, [isDeleted |-> TRUE])
  IN
  IF found.out.kind # "OK" THEN found
  ELSE [out |-> Returned(<<>>, <<"findById", "update">>),
        store |-> updated.store]

(* ------------------------------- requests ------------------------------ *)

\* ids a request can name: every id the store can hand out and one it never
\* hands out
ReqIds == 1..(MaxProjects + 1)

Body(name, clientName, status, startDate, endDate, isDeleted) ==
  [name |-> name, clientName |-> clientName, status |-> status,
   startDate |-> startDate, endDate |-> endDate, isDeleted |-> isDeleted]

\* two bodies that pass validation ("Ab" for "c D"; " b " for "CAB",
\* created completed, with a field the validator does not accept) and bodies
\* that fail one or several rules; 65 = A, 66 = B, 67 = C, 68 = D, 97 = a,
\* 98 = b, 99 = c, 32 = space
CreateBodies ==
  { Body(T(<<65, 98>>), T(<<99, 32, 68>>), Undefined,
         S("2026-06-01"), Undefined, Undefined),
    Body(T(<<32, 98, 32>>), T(<<67, 65, 66>>), S("completed"),
         S("2026-01-01"), S("2026-06-01"), Bool("true")),
    Body(UndefinedText, UndefinedText, Undefined,
         Undefined, Undefined, Undefined),
    Body(NumText, T(<<32>>), S("bogus"),
         S("garbage"), S("garbage"), Undefined),
    Body(T(<<65>>), T(<<66>>), S("active"),
         S("2026-06-01"), S("2026-01-01"), Undefined),
    Body(T(<<>>), T(<<66>>), Null,
         Num("5"), S("2026-01-01"), Undefined) }

StatusBodies ==
  { [status |-> x] :
      x \in {Undefined, S("bogus"), S("active"), S("on_hold"), S("completed")} }

Query(status, search, sort, order) ==
  [status |-> status, search |-> search, sort |-> sort, order |-> order]

\* search terms: absent, "", "aB", "D"
SearchTerms == {UndefinedText, T(<<>>), T(<<97, 66>>), T(<<68>>)}

Queries ==
  { Query(st, se, Undefined, Undefined) :
      st \in {Undefined, S("completed")}, se \in SearchTerms }
  \cup
  { Query(S(""), UndefinedText, Undefined, Undefined),
    Query(S("bogus"), T(<<97, 66>>), Undefined, Undefined),
    Query(S("on_hold"), T(<<97, 66>>), Undefined, Undefined),
    Query(Undefined, UndefinedText, S("createdAt"), S("asc")),
    Query(Undefined, UndefinedText, S("startDate"), Undefined),
    Query(Undefined, UndefinedText, S("name"), S("asc")),
    Query(Undefined, UndefinedText, Undefined, S("up")),
    Query(S("completed"), T(<<97, 66>>), S("startDate"), S("asc")) }

(* ------------------------------- actions ------------------------------- *)

NoOutcome == Returned(<<>>, <<>>)

\* no request is being served; while one is, last holds the request, the
\* record set before the call and the outcome
Idle ==
  [op |-> "idle", id |-> 0, arg |-> <<>>, before |-> <<>>, out |-> NoOutcome]

\* the callers whose Store calls may be in flight together
Callers == {1, 2}

\* a caller with no Store call in flight
NoTask ==
  [op |-> "none", pc |-> "idle", suspended |-> FALSE, id |-> 0,
   arg |-> <<>>, index |-> 0, t |-> 0, before |-> <<>>, ret |-> <<>>,
   alias |-> <<>>, out |-> NoOutcome]

Init ==
  /\ projects = <<>>
  /\ now = 0
  /\ last = Idle
  /\ deletedOk = {}
  /\ tasks = [c \in Callers |-> NoTask]

\* time passes between two requests
Tick ==
  /\ last = Idle
  /\ now < MaxTime
  /\ now' = now + 1
  /\ UNCHANGED <<projects, last, deletedOk, tasks>>

CreateProject(body) ==
  /\ last = Idle
  /\ Len(projects) < MaxProjects
  /\ LET r == createProject(projects, now, body) IN
       /\ projects' = r.store
       /\ last' = [op |-> "createProject", id |-> 0, arg |-> body,
                   before |-> projects, out |-> r.out]
  /\ UNCHANGED <<now, deletedOk, tasks>>

ListProjects(query) ==
  /\ last = Idle
  /\ LET r == listProjects(projects, query) IN
       /\ projects' = r.store
       /\ last' = [op |-> "listProjects", id |-> 0, arg |-> query,
                   before |-> projects, out |-> r.out]
  /\ UNCHANGED <<now, deletedOk, tasks>>

GetProjectById(id) ==
  /\ last = Idle
  /\ LET r == getProjectById(projects, id) IN
       /\ projects' = r.store
       /\ last' = [op |-> "getProjectById", id |-> id, arg |-> <<>>,
                   before |-> projects, out |-> r.out]
  /\ UNCHANGED <<now, deletedOk, tasks>>

UpdateProjectStatus(id, body) ==
  /\ last = Idle
  /\ LET r == updateProjectStatus(projects, now, id, body) IN
       /\ projects' = r.store
       /\ last' = [op |-> "updateProjectStatus", id |-> id, arg |-> body,
                   before |-> projects, out |-> r.out]
  /\ UNCHANGED <<now, deletedOk, tasks>>

DeleteProject(id) ==
  /\ last = Idle
  /\ LET r == deleteProject(projects, now, id) IN
       /\ projects' = r.store
       /\ last' = [op |-> "deleteProject", id |-> id, arg |-> <<>>,
                   before |-> projects, out |-> r.out]
       /\ deletedOk' = IF r.out.kind = "OK" THEN deletedOk \cup {id}
                       ELSE deletedOk
  /\ UNCHANGED <<now, tasks>>

\* the controller hands the outcome to the client (res.status(..).json(..) or
\* next(err)); the next request is served after that
Respond ==
  /\ last # Idle
  /\ last' = Idle
  /\ UNCHANGED <<projects, now, deletedOk, tasks>>

Next ==
  \/ Tick
  \/ \E body \in CreateBodies : CreateProject(body)
  \/ \E query \in Queries : ListProjects(query)
  \/ \E id \in ReqIds : GetProjectById(id)
  \/ \E id \in ReqIds, body \in StatusBodies : UpdateProjectStatus(id, body)
  \/ \E id \in ReqIds : DeleteProject(id)
  \/ Respond

Spec == Init /\ [][Next]_vars

(* ------------------- listing: validation and sorting ------------------- *)

\* queries over the values of status, sort and order that listProjects and
\* findAll tell apart: absent, empty, every recognised value, an unknown one
SortQueries ==
  { Query(st, UndefinedText, so, ord) :
      st \in {Undefined, S(""), S("completed"), S("bogus")},
      so \in {Undefined, S(""), S("createdAt"), S("startDate"), S("name")},
      ord \in {Undefined, S(""), S("asc"), S("desc"), S("up")} }

NextList ==
  \/ Tick
  \/ \E body \in CreateBodies : CreateProject(body)
  \/ \E query \in SortQueries : ListProjects(query)
  \/ \E id \in ReqIds : DeleteProject(id)
  \/ Respond

SpecList == Init /\ [][NextList]_vars

(* -------------------------- creation: validation ----------------------- *)

\* name "Ab", clientName "c D"
GoodName == T(<<65, 98>>)

GoodClientName == T(<<99, 32, 68>>)

\* request bodies of POST /projects: every kind of status value on an
\* otherwise valid body, every pair of startDate and endDate values on an
\* otherwise valid body, every combination of a kept and a broken rule, and
\* bodies with fields the API does not accept
WideBodies ==
  { Body(GoodName, GoodClientName, st, S("2026-06-01"), Undefined, Undefined) :
      st \in {Undefined, Null, S(""), Num("5"), S("bogus"),
              S("active"), S("on_hold"), S("completed")} }
  \cup
  { Body(GoodName, GoodClientName, Undefined, sd, ed, Undefined) :
      sd \in {Undefined, Null, S(""), Num("5"), S("garbage"),
              S("2026-01-01"), S("2026-06-01")},
      ed \in {Undefined, Null, S(""), Num("5"), S("garbage"),
              S("2026-01-01"), S("2026-06-01")} }
  \cup
  { Body(n, c, st, sd, ed, Undefined) :
      n \in {GoodName, UndefinedText, NumText, T(<<>>), T(<<32>>)},
      c \in {GoodClientName, UndefinedText},
      st \in {S("on_hold"), S("bogus")},
      sd \in {S("2026-06-01"), Undefined, S("garbage")},
      ed \in {Undefined, S("garbage"), S("2026-01-01")} }
  \cup
  { [name |-> GoodName, clientName |-> GoodClientName, status |-> st,
     startDate |-> S("2026-06-01"), endDate |-> Undefined,
     isDeleted |-> Bool("true"), id |-> Num("1"),
     createdAt |-> S("2026-01-01"), updatedAt |-> S("2026-06-01")] :
      st \in {Undefined, S("completed")} }

NextCreate ==
  \/ Tick
  \/ \E body \in WideBodies : CreateProject(body)
  \/ Respond

SpecCreate == Init /\ [][NextCreate]_vars

(* --------------------- the service within one instant ------------------ *)

\* bodies of PATCH /projects/:id/status: no status, falsy and truthy values
\* that are no status, and the three statuses
WideStatusBodies ==
  { [status |-> x] :
      x \in {Undefined, Null, S(""), Num("0"), Num("5"), Bool("true"),
              S("bogus"), S("active"), S("on_hold"), S("completed")} }

\* every request of the run is served within one reading of the clock: what
\* the record set holds and which ids it holds do not depend on the time
NextService ==
  \/ \E body \in CreateBodies : CreateProject(body)
  \/ \E query \in Queries : ListProjects(query)
  \/ \E id \in ReqIds : GetProjectById(id)
  \/ \E id \in ReqIds, body \in WideStatusBodies :
       UpdateProjectStatus(id, body)
  \/ \E id \in ReqIds : DeleteProject(id)
  \/ Respond

SpecService == Init /\ [][NextService]_vars

\* a request being served is answered: every controller ends in res.json,
\* res.send or next(err)
SpecServiceFair == SpecService /\ WF_vars(Respond)

\* the create bodies that break no rule of the validator or one only: one
\* rule stands between each of the latter and the Store
NearBodies == {body \in WideBodies : Len(CreateErrors(body)) <= 1}

\* the five operations of the service on such bodies, within one reading of
\* the clock
NextWide ==
  \/ \E body \in NearBodies : CreateProject(body)
  \/ ListProjects(Query(Undefined, UndefinedText, Undefined, Undefined))
  \/ \E id \in ReqIds : GetProjectById(id)
  \/ \E id \in ReqIds, body \in StatusBodies : UpdateProjectStatus(id, body)
  \/ \E id \in ReqIds : DeleteProject(id)
  \/ Respond

SpecWide == Init /\ [][NextWide]_vars

\* a create body the validator accepts and one it rejects for its endDate
TimedBodies ==
  { Body(GoodName, GoodClientName, Undefined, S("2026-06-01"), e, Undefined) :
      e \in {Undefined, S("2026-01-01")} }

\* a list request that sorts and one the service rejects
TimedQueries ==
  { Query(Undefined, UndefinedText, S("createdAt"), S("desc")),
    Query(Undefined, UndefinedText, S("name"), Undefined) }

\* the five operations of the service with time passing between requests
NextTimed ==
  \/ Tick
  \/ \E body \in TimedBodies : CreateProject(body)
  \/ \E query \in TimedQueries : ListProjects(query)
  \/ \E id \in ReqIds : GetProjectById(id)
  \/ \E id \in ReqIds, body \in StatusBodies : UpdateProjectStatus(id, body)
  \/ \E id \in ReqIds : DeleteProject(id)
  \/ Respond

SpecTimed == Init /\ [][NextTimed]_vars

(* ------------------------- the store's reset hook ---------------------- *)

\* projects.store.js clear: the record set after projects = []
StoreClear == <<>>

\* the test suites call clear() between two tests; no route reaches it
Clear ==
  /\ last = Idle
  /\ projects' = StoreClear
  /\ last' = [op |-> "clear", id |-> 0, arg |-> <<>>,
              before |-> projects, out |-> NoOutcome]
  /\ deletedOk' = {}
  /\ UNCHANGED <<now, tasks>>

NextReset == NextService \/ Clear

SpecReset == Init /\ [][NextReset]_vars

(* ------------------------------ the boundary --------------------------- *)

\* mutant: the class of the error is not looked at, an error without a
\* statusCode is answered with 500 and its own name and message
errorHandler_NoClassCheck(err) ==
  [status |-> IF err.statusCode = 0 THEN 500 ELSE err.statusCode,
   code |-> err.kind,
   message |-> err.message]

\* middleware/errorHandler.js: the status and the error envelope of the
\* response
errorHandler(err) ==
  IF InstanceOfAppError(err)
    THEN [status |-> err.statusCode, code |-> err.kind,
          message |-> err.message]
    ELSE [status |-> 500, code |-> "INTERNAL_SERVER_ERROR",
          message |-> <<"An unexpected error occurred">>]

\* ?search=a&search=b: the query parser hands the two values over as an array
ArrayText == [t |-> "array", v |-> <<97, 98>>]

HttpQueries ==
  Queries
  \cup
  { Query(Undefined, ArrayText, Undefined, Undefined),
    Query(S("completed"), ArrayText, S("startDate"), S("asc")),
    Query(S("bogus"), ArrayText, Undefined, Undefined),
    Query(Undefined, NumText, Undefined, S("up")) }

\* express.json() rejects a request body that is not JSON and hands its
\* SyntaxError to the error handler; no controller runs
BodyParseFault ==
  /\ last = Idle
  /\ last' = [op |-> "express.json", id |-> 0, arg |-> <<>>,
              before |-> projects,
              out |-> NativeError("SyntaxError",
                                  <<"Unexpected token in JSON">>)]
  /\ UNCHANGED <<projects, now, deletedOk, tasks>>

\* catch (err) { next(err) } of the controllers, then errorHandler: last
\* holds the error handled and the response
HandleError ==
  /\ last.op \notin {"idle", "errorHandler"}
  /\ last.out.kind # "OK"
  /\ last' = [op |-> "errorHandler", id |-> last.id, arg |-> last.out,
              before |-> last.before, out |-> errorHandler(last.out)]
  /\ UNCHANGED <<projects, now, deletedOk, tasks>>

\* a request is answered by its controller when the service returned and by
\* the error handler when it threw
NextHttp ==
  \/ \E body \in CreateBodies : CreateProject(body)
  \/ \E query \in HttpQueries : ListProjects(query)
  \/ \E id \in ReqIds : GetProjectById(id)
  \/ \E id \in ReqIds, body \in WideStatusBodies :
       UpdateProjectStatus(id, body)
  \/ \E id \in ReqIds : DeleteProject(id)
  \/ BodyParseFault
  \/ HandleError
  \/ (IF last.op = "errorHandler" THEN TRUE ELSE last.out.kind = "OK")
       /\ Respond

SpecHttp == Init /\ [][NextHttp]_vars

(* -------------------- Store calls of several callers ------------------- *)
(* The Store functions are async functions; a caller that does not await   *)
(* one call before the next (Promise.all, two requests being served) has   *)
(* several calls in flight.  tasks[c] is the call of caller c: its         *)
(* function and arguments, the statement it is at, the record set when it  *)
(* was called (before), its locals and its result.                         *)

\* mutant: update waits for I/O between the lookup and the write
AwaitsAt_Lookup(op, pc) == op = "update" /\ pc = "found"

\* the points of a Store function at which it awaits: the bodies of create,
\* findById, findAll, update and clear hold no await
AwaitsAt(op, pc) == FALSE

\* the call is on the JavaScript stack: started, not returned, not suspended
OnStack(c) == tasks[c].pc \notin {"idle", "done"} /\ ~tasks[c].suspended

\* run to completion: a call starts or resumes when no other is on the stack
MayRun(c) == \A d \in Callers \ {c} : ~OnStack(d)

\* projects[index] of an array: undefined (no fields) outside its length
At(ps, index) == IF index \in DOMAIN ps THEN ps[index] ELSE <<>>

\* projects[index] = x: an index past the length leaves holes before it
AssignAt(ps, index, x) ==
  [i \in 1..(IF index > Len(ps) THEN index ELSE Len(ps)) |->
     IF i = index THEN x ELSE At(ps, i)]

\* mutant: return project, the stored object itself
CloneAlias_Same(index) == index

\* clone, the identity of its result: JSON.parse builds a new object, which
\* is none of the stored ones (0); a stored object is known by its index
CloneAlias(index) == 0

\* return: the call has its result, its locals are gone; from holds the
\* indexes of the stored records the returned ones were cloned from
Return(task, ret, from) ==
  [NoTask EXCEPT !.op = task.op, !.pc = "done", !.id = task.id,
                 !.arg = task.arg, !.ret = ret,
                 !.alias = [k \in DOMAIN from |-> CloneAlias(from[k])]]

\* one statement of a Store function: the call and the record set after it
Statement(task, ps, t) ==
  CASE task.op = "create" /\ task.pc = "called" ->
         \* const now = ...; const project = { ... }
         [task |-> [task EXCEPT !.pc = "built", !.t = t,
                                !.ret = StoreCreate(ps, t, task.arg).ret],
          store |-> ps]
    [] task.op = "create" /\ task.pc = "built" ->
         \* projects.push(project); return clone(project)
         [task |-> Return(task, <<clone(task.ret[1])>>, <<Len(ps) + 1>>),
          store |-> Append(ps, task.ret[1])]
    [] task.op = "findById" ->
         [task |-> Return(task, StoreFindById(ps, task.id),
                          IF FindIndex(ps, task.id) = 0
                            THEN <<>> ELSE <<FindIndex(ps, task.id)>>),
          store |-> ps]
    [] task.op = "findAll" ->
         LET found == StoreFindAll(ps, task.arg)
         IN [task |-> Return(task, found,
                             [k \in DOMAIN found |->
                                FindIndex(ps, found[k].id)]),
             store |-> ps]
    [] task.op = "update" /\ task.pc = "called" ->
         \* const index = ...; if (index === -1) return null
         IF FindIndex(ps, task.id) = 0
           THEN [task |-> Return(task, <<>>, <<>>), store |-> ps]
           ELSE [task |-> [task EXCEPT !.pc = "found",
                                       !.index = FindIndex(ps, task.id)],
                 store |-> ps]
    [] task.op = "update" /\ task.pc = "found" ->
         \* projects[index] = { ... }; return clone(projects[index])
         LET merged == Merge(At(ps, task.index), task.arg, t)
         IN [task |-> Return(task, <<clone(merged)>>, <<task.index>>),
             store |-> AssignAt(ps, task.index, merged)]
    [] task.op = "clear" ->
         [task |-> Return(task, <<>>, <<>>), store |-> StoreClear]

\* validated project data, as the service hands it to create
StoreData ==
  { validateCreateProject(
      Body(GoodName, GoodClientName, Undefined, S("2026-01-01"), Undefined,
           Undefined)).data }

\* the updates the service asks for
StoreUpdates == {[status |-> "on_hold"], [isDeleted |-> TRUE]}

\* the calls are about one record, present or not
TaskIds == {1}

\* a caller calls a Store function
Call(c, op, id, arg) ==
  /\ last = Idle
  /\ tasks[c].pc = "idle"
  /\ MayRun(c)
  /\ op = "create" => Len(projects) < MaxProjects
  /\ tasks' = [tasks EXCEPT ![c] =
                 [NoTask EXCEPT !.op = op, !.pc = "called", !.id = id,
                                !.arg = arg, !.before = projects]]
  /\ UNCHANGED <<projects, now, last, deletedOk>>

\* the call on the stack, or one resumed after an await, runs a statement
Step(c) ==
  /\ tasks[c].pc \notin {"idle", "done"}
  /\ MayRun(c)
  /\ LET r == Statement(tasks[c], projects, now) IN
       /\ projects' = r.store
       /\ tasks' = [tasks EXCEPT ![c] =
                      [r.task EXCEPT !.suspended =
                         r.task.pc # "done"
                         /\ AwaitsAt(r.task.op, r.task.pc)]]
  /\ UNCHANGED <<now, last, deletedOk>>

\* the caller takes the result of its call
Settle(c) ==
  /\ tasks[c].pc = "done"
  /\ tasks' = [tasks EXCEPT ![c] = NoTask]
  /\ UNCHANGED <<projects, now, last, deletedOk>>

NextStore ==
  \/ (\A c \in Callers : tasks[c].pc = "idle") /\ Tick
  \/ \E c \in Callers, data \in StoreData : Call(c, "create", 0, data)
  \/ \E c \in Callers, id \in TaskIds : Call(c, "findById", id, <<>>)
  \/ \E c \in Callers :
       Call(c, "findAll", 0, Query(Undefined, UndefinedText, Undefined,
                                   Undefined))
  \/ \E c \in Callers, id \in TaskIds, updates \in StoreUpdates :
       Call(c, "update", id, updates)
  \/ \E c \in Callers : Call(c, "clear", 0, <<>>)
  \/ \E c \in Callers : Step(c)
  \/ \E c \in Callers : Settle(c)

SpecStore == Init /\ [][NextStore]_vars

\* the options of findAll: no filter, a sort field the Store knows, one it
\* does not know or none, an order or none
StoreOptions ==
  { Query(Undefined, UndefinedText, so, ord) :
      so \in {Undefined, S("createdAt"), S("startDate"), S("name")},
      ord \in {Undefined, S("asc"), S("desc")} }

\* two dates for the startDate of the records
StoreDataByDate ==
  { validateCreateProject(
      Body(GoodName, GoodClientName, Undefined, d, Undefined,
           Undefined)).data : d \in {S("2026-01-01"), S("2026-06-01")} }

NextFindAll ==
  \/ (\A c \in Callers : tasks[c].pc = "idle") /\ Tick
  \/ \E data \in StoreDataByDate : Call(1, "create", 0, data)
  \/ \E options \in StoreOptions : Call(2, "findAll", 0, options)
  \/ \E c \in Callers : Step(c)
  \/ \E c \in Callers : Settle(c)

SpecFindAll == Init /\ [][NextFindAll]_vars

\* Object.assign(obj, changes) on an object with these fields
Assign(obj, changes) ==
  [f \in DOMAIN obj |-> IF f \in DOMAIN changes THEN changes[f] ELSE obj[f]]

\* what a caller writes into a record it was handed: the name "X" and the
\* deleted flag
CallerChanges == [name |-> <<88>>, isDeleted |-> TRUE]

\* a caller modifies a record a Store call returned to it; an object that is
\* a stored one is modified in the Store as well
Modify(c) ==
  /\ last = Idle
  /\ tasks[c].pc = "done"
  /\ \E k \in DOMAIN tasks[c].ret :
       LET a == tasks[c].alias[k] IN
       /\ Assign(tasks[c].ret[k], CallerChanges) # tasks[c].ret[k]
       /\ tasks' = [tasks EXCEPT ![c].ret[k] =
                      Assign(tasks[c].ret[k], CallerChanges)]
       /\ projects' = IF a \in DOMAIN projects
                        THEN [projects EXCEPT ![a] =
                                Assign(projects[a], CallerChanges)]
                        ELSE projects
  /\ UNCHANGED <<now, last, deletedOk>>

NextCopies == NextStore \/ \E c \in Callers : Modify(c)

SpecCopies == Init /\ [][NextCopies]_vars

(* ----------------------- service calls in flight ----------------------- *)

\* the service functions that read a record, await, and then write it
ServiceCalls == {"updateProjectStatus", "deleteProject"}

\* the service call has settled: its locals are gone, its outcome is kept
ServiceReturn(task, out) ==
  [NoTask EXCEPT !.op = task.op, !.pc = "done", !.id = task.id,
                 !.arg = task.arg, !.out = out]

\* the service call waits at an await with its locals kept
ServiceAwait(task, pc, ret) ==
  [task EXCEPT !.pc = pc, !.ret = ret, !.suspended = TRUE]

\* the code of a service call between two awaits, and the record set after
\* it. A Store function has no await, so its body runs inside the step that
\* calls it and the step ends at the await of its promise:
\*   "called"  -> validateStatusUpdate, getProjectById up to
\*                `await projectStore.findById(id)`
\*   "read"    -> the rest of getProjectById, up to `await getProjectById(id)`
\*   "fetched" -> the checks on the project that was read, up to
\*                `await projectStore.update(...)`
\*   "written" -> the return
ServiceStatement(task, ps, t) ==
  LET newStatus == validateStatusUpdate(task.arg)
      project == task.ret[1]
      currentStatus == project.status
      allowed == ALLOWED_TRANSITIONS[currentStatus]
      updates == IF task.op = "deleteProject"
                   THEN [isDeleted |-> TRUE]
                   ELSE [status |-> newStatus.status]
      updated == StoreUpdate(ps, t, task.id, updates)
  IN
  CASE task.pc = "called" ->
         IF task.op = "updateProjectStatus" /\ ~newStatus.ok
           THEN [task |-> ServiceReturn(task, newStatus.error), store |-> ps]
           ELSE [task |-> ServiceAwait(task, "read",
                                       StoreFindById(ps, task.id)),
                 store |-> ps]
    [] task.pc = "read" ->
         IF task.ret = <<>> \/ project.isDeleted
           THEN [task |-> ServiceReturn(task,
                            getProjectById(<<>>, task.id).out),
                 store |-> ps]
           ELSE [task |-> ServiceAwait(task, "fetched", task.ret),
                 store |-> ps]
    [] task.pc = "fetched" ->
         IF task.op = "deleteProject"
           THEN [task |-> ServiceAwait(task, "written", updated.ret),
                 store |-> updated.store]
         ELSE IF currentStatus = newStatus.status
           THEN [task |-> ServiceReturn(task,
                            Returned(<<project>>, <<"findById">>)),
                 store |-> ps]
         ELSE IF \/ currentStatus \notin DOMAIN ALLOWED_TRANSITIONS
                 \/ ~SeqIncludes(allowed, newStatus.status)
           THEN [task |-> ServiceReturn(task,
                   WithCalls(
                     AppError(<<"Cannot transition from '", currentStatus,
                                "' to '", newStatus.status, "'">>,
                              400, "INVALID_STATUS_TRANSITION"),
                     <<"findById">>)),
                 store |-> ps]
         ELSE [task |-> ServiceAwait(task, "written", updated.ret),
               store |-> updated.store]
    [] task.pc = "written" ->
         [task |-> ServiceReturn(task,
                     Returned(IF task.op = "deleteProject" THEN <<>>
                                                           ELSE task.ret,
                              <<"findById", "update">>)),
          store |-> ps]

\* a caller calls updateProjectStatus or deleteProject and does not wait for
\* the other caller's call to settle
ServiceCall(c, op, id, body) ==
  /\ last = Idle
  /\ tasks[c].pc = "idle"
  /\ MayRun(c)
  /\ tasks' = [tasks EXCEPT ![c] =
                 [NoTask EXCEPT !.op = op, !.pc = "called", !.id = id,
                                !.arg = body]]
  /\ UNCHANGED <<projects, now, last, deletedOk>>

\* the call runs from where it is to its next await or to its end
ServiceStep(c) ==
  /\ tasks[c].op \in ServiceCalls
  /\ tasks[c].pc \notin {"idle", "done"}
  /\ MayRun(c)
  /\ LET r == ServiceStatement(tasks[c], projects, now) IN
       /\ projects' = r.store
       /\ tasks' = [tasks EXCEPT ![c] = r.task]
  /\ UNCHANGED <<now, last, deletedOk>>

\* the status bodies of the calls in flight
FlightBodies ==
  { [status |-> x] : x \in {S("active"), S("on_hold"), S("completed")} }

NextFlight ==
  \/ (\A c \in Callers : tasks[c].pc = "idle") /\ Tick
  \/ \E c \in Callers, data \in StoreData : Call(c, "create", 0, data)
  \/ \E c \in Callers : tasks[c].op = "create" /\ Step(c)
  \/ \E c \in Callers, id \in TaskIds, body \in FlightBodies :
       ServiceCall(c, "updateProjectStatus", id, body)
  \/ \E c \in Callers, id \in TaskIds :
       ServiceCall(c, "deleteProject", id, <<>>)
  \/ \E c \in Callers : ServiceStep(c)
  \/ \E c \in Callers : Settle(c)

SpecFlight == Init /\ [][NextFlight]_vars

(* ------------------------- helpers of the claims ----------------------- *)

\* the id belongs to a stored record that is not soft-deleted
Visible(ps, id) == \E i \in DOMAIN ps : ps[i].id = id /\ ~ps[i].isDeleted

\* the id belongs to a stored record, deleted or not
Stored(ps, id) == \E i \in DOMAIN ps : ps[i].id = id

\* the stored record with that id
Record(ps, id) == ps[CHOOSE i \in DOMAIN ps : ps[i].id = id]

ValidStatusValues == {S("active"), S("on_hold"), S("completed")}

(* -------------------------------- claims ------------------------------- *)

\* C1: on a visible record whose status is completed, updateProjectStatus
\* requesting active or on_hold fails with INVALID_STATUS_TRANSITION and
\* leaves the store (status and updatedAt of the record included) as it was;
\* a status update that succeeds on such a record requested completed.
C1_CompletedRejectsChange ==
  (/\ last.op = "updateProjectStatus"
   /\ Visible(last.before, last.id)
   /\ Record(last.before, last.id).status = "completed")
  => /\ last.arg.status \in {S("active"), S("on_hold")}
        => /\ last.out.kind = "INVALID_STATUS_TRANSITION"
           /\ projects = last.before
     /\ last.out.kind = "OK" => last.arg.status = S("completed")

C1_Witness ==
  /\ last.op = "updateProjectStatus"
  /\ last.arg.status = S("active")
  /\ Visible(last.before, last.id)
  /\ Record(last.before, last.id).status = "completed"
  /\ Record(last.before, last.id).updatedAt < now
  /\ last.out.kind = "INVALID_STATUS_TRANSITION"

\* C2: for a visible record with status c and a valid requested status s
\* other than c, updateProjectStatus succeeds exactly when (c, s) is one of
\* active->on_hold, active->completed, on_hold->active, on_hold->completed;
\* on success the stored and the returned status are s; otherwise it fails
\* with INVALID_STATUS_TRANSITION.
C2_TransitionTable ==
  (/\ last.op = "updateProjectStatus"
   /\ Visible(last.before, last.id)
   /\ last.arg.status \in ValidStatusValues
   /\ last.arg.status.v # Record(last.before, last.id).status)
  => LET c == Record(last.before, last.id).status
         s == last.arg.status.v
         inTable == <<c, s>> \in {<<"active", "on_hold">>,
                                  <<"active", "completed">>,
                                  <<"on_hold", "active">>,
                                  <<"on_hold", "completed">>}
     IN /\ (last.out.kind = "OK") <=> inTable
        /\ last.out.kind = "OK"
             => /\ Record(projects, last.id).status = s
                /\ Len(last.out.ret) = 1
                /\ last.out.ret[1].status = s
                /\ last.out.ret[1].id = last.id
        /\ last.out.kind # "OK"
             => last.out.kind = "INVALID_STATUS_TRANSITION"

C2_Witness ==
  /\ last.op = "updateProjectStatus"
  /\ last.arg.status = S("active")
  /\ last.out.kind = "OK"
  /\ Record(last.before, last.id).status = "on_hold"
  /\ Record(projects, last.id).status = "active"
  /\ Record(projects, last.id).updatedAt > Record(projects, last.id).createdAt

\* C3: once a record's stored status is completed it is completed in every
\* later state, whatever service operation is served next.
C3_CompletedIsTerminal ==
  [][\A i \in DOMAIN projects :
       projects[i].status = "completed"
         => /\ i \in DOMAIN projects'
            /\ projects'[i].id = projects[i].id
            /\ projects'[i].status = "completed"]_vars

C3_Witness ==
  /\ last.op = "deleteProject"
  /\ last.out.kind = "OK"
  /\ Record(last.before, last.id).status = "completed"
  /\ Record(projects, last.id).status = "completed"
  /\ Record(projects, last.id).updatedAt > Record(last.before, last.id).updatedAt

\* C4: once a record's isDeleted flag is true it is true in every later
\* state; no service operation sets it back to false.
C4_SoftDeleteMonotone ==
  [][\A i \in DOMAIN projects :
       projects[i].isDeleted
         => /\ i \in DOMAIN projects'
            /\ projects'[i].id = projects[i].id
            /\ projects'[i].isDeleted]_vars

C4_Witness ==
  /\ last.op = "updateProjectStatus"
  /\ last.arg.status \in ValidStatusValues
  /\ Stored(last.before, last.id)
  /\ Record(last.before, last.id).isDeleted
  /\ last.arg.status.v # Record(last.before, last.id).status
  /\ Record(projects, last.id).isDeleted

\* C5: requesting the status a visible record already has succeeds, returns
\* a record equal to the stored one (same updatedAt), does not call
\* Store.update and leaves the whole store unchanged, for each of the three
\* statuses.
C5_SameStatusIsNoOp ==
  (/\ last.op = "updateProjectStatus"
   /\ Visible(last.before, last.id)
   /\ last.arg.status = S(Record(last.before, last.id).status))
  => /\ last.out.kind = "OK"
     /\ last.out.ret = <<Record(last.before, last.id)>>
     /\ \A k \in DOMAIN last.out.calls : last.out.calls[k] # "update"
     /\ projects = last.before

C5_Witness ==
  /\ last.op = "updateProjectStatus"
  /\ last.arg.status = S("completed")
  /\ last.out.kind = "OK"
  /\ Record(last.before, last.id).status = "completed"
  /\ Record(last.before, last.id).updatedAt < now

\* C6: getProjectById(id) fails with PROJECT_NOT_FOUND exactly when the store
\* holds no record with that id or the record is soft-deleted; otherwise it
\* returns the stored record.
C6_GetByIdNotFound ==
  last.op = "getProjectById"
  => /\ (last.out.kind = "PROJECT_NOT_FOUND")
          <=> (\/ ~Stored(last.before, last.id)
               \/ Record(last.before, last.id).isDeleted)
     /\ last.out.kind # "PROJECT_NOT_FOUND"
          => /\ last.out.kind = "OK"
             /\ last.out.ret = <<Record(last.before, last.id)>>

C6_Witness ==
  /\ last.op = "getProjectById"
  /\ last.out.kind = "PROJECT_NOT_FOUND"
  /\ Stored(last.before, last.id)
  /\ Record(last.before, last.id).isDeleted

\* the store of the run in which the record with id d was never created
Without(ps, d) ==
  LET Other(p) == p.id # d IN SelectSeq(ps, Other)

\* the service operation op served on store ps at time t
ServeOn(ps, t, op, id, arg) ==
  CASE op = "getProjectById" -> getProjectById(ps, id)
    [] op = "updateProjectStatus" -> updateProjectStatus(ps, t, id, arg)
    [] op = "deleteProject" -> deleteProject(ps, t, id)
    [] op = "listProjects" -> listProjects(ps, arg)

\* C7: a soft-deleted record cannot be told from one that was never created:
\* every getProjectById, updateProjectStatus, deleteProject and listProjects
\* request has the same outcome (kind, message, returned records) and the same
\* effect on the other records as in the run whose store differs only in not
\* holding the soft-deleted record.
C7_DeletedLikeAbsent ==
  last.op \in {"getProjectById", "updateProjectStatus",
               "deleteProject", "listProjects"}
  => \A i \in DOMAIN last.before :
       last.before[i].isDeleted
         => LET d == last.before[i].id
                other == ServeOn(Without(last.before, d), now,
                                 last.op, last.id, last.arg)
            IN /\ other.out = last.out
               /\ other.store = Without(projects, d)

C7_Witness ==
  /\ last.op = "listProjects"
  /\ last.out.kind = "OK"
  /\ TruthyText(last.arg.search)
  /\ Len(last.out.ret) >= 1
  /\ \E i \in DOMAIN last.before : last.before[i].isDeleted

\* C8: deleteProject(id) on a visible record succeeds and sets isDeleted;
\* on an absent or already soft-deleted id it fails with PROJECT_NOT_FOUND
\* and changes nothing, so a delete of an id that an earlier delete removed
\* fails.
C8_DeleteOnceThenNotFound ==
  last.op = "deleteProject"
  => /\ Visible(last.before, last.id)
          => /\ last.out.kind = "OK"
             /\ Record(projects, last.id).isDeleted
     /\ ~Visible(last.before, last.id)
          => /\ last.out.kind = "PROJECT_NOT_FOUND"
             /\ projects = last.before
     /\ (Stored(last.before, last.id) /\ Record(last.before, last.id).isDeleted)
          => /\ last.id \in deletedOk
             /\ last.out.kind = "PROJECT_NOT_FOUND"

C8_Witness ==
  /\ last.op = "deleteProject"
  /\ last.out.kind = "PROJECT_NOT_FOUND"
  /\ last.id \in deletedOk
  /\ projects = last.before

\* a status or search parameter that is absent or empty selects nothing
NotGiven(x) == x.t = "undefined" \/ (x.t = "string" /\ Len(x.v) = 0)

FoldCase(c) == IF c \in 65..90 THEN c + 32 ELSE c

\* q, compared case-insensitively, is a substring of s
SubstringNoCase(q, s) ==
  \E k \in 0..(Len(s) - Len(q)) :
    \A j \in 1..Len(q) : FoldCase(s[k + j]) = FoldCase(q[j])

\* C9: for every stored record r and every accepted query with status filter
\* s and search term q, r appears in the listProjects result exactly when r is
\* not deleted, s is absent or equals r.status, and q is absent or is,
\* compared case-insensitively, a substring of r.name or r.clientName; a
\* matching record appears exactly once.
C9_ListFilter ==
  (last.op = "listProjects" /\ last.out.kind = "OK")
  => LET s == last.arg.status
         q == last.arg.search
         ret == last.out.ret
     IN \A i \in DOMAIN last.before :
          LET r == last.before[i]
              matches ==
                /\ ~r.isDeleted
                /\ (s.t = "undefined" \/ s.v = "" \/ s.v = r.status)
                /\ \/ NotGiven(q)
                   \/ SubstringNoCase(q.v, r.name)
                   \/ SubstringNoCase(q.v, r.clientName)
              places == {k \in DOMAIN ret : ret[k].id = r.id}
          IN /\ Cardinality(places) = (IF matches THEN 1 ELSE 0)
             /\ \A k \in places : ret[k] = r

C9_Witness ==
  /\ last.op = "listProjects"
  /\ last.out.kind = "OK"
  /\ last.arg.status = S("completed")
  /\ last.arg.search = T(<<97, 66>>)
  /\ Len(last.out.ret) = 1
  /\ Len(last.before) = 2
  /\ \A i \in DOMAIN last.before : ~last.before[i].isDeleted

\* C10: after deleteProject(id) has succeeded, no listProjects call, whatever
\* its status, search, sort and order, returns a record with that id.
C10_DeletedNeverListed ==
  (last.op = "listProjects" /\ last.out.kind = "OK")
    => \A k \in DOMAIN last.out.ret : last.out.ret[k].id \notin deletedOk

C10_Witness ==
  /\ last.op = "listProjects"
  /\ last.out.kind = "OK"
  /\ last.arg.sort = S("startDate")
  /\ last.arg.order = S("asc")
  /\ Len(last.out.ret) >= 1
  /\ deletedOk # {}

\* C11: a successful listProjects returns the records ordered by the sort
\* field of the query (startDate when sort is startDate, createdAt when sort
\* is createdAt or not given) under string comparison: no record is followed
\* by a smaller one when order is asc, none by a greater one when order is
\* desc or not given.
C11_SortCorrectness ==
  (last.op = "listProjects" /\ last.out.kind = "OK") =>
    LET ret == last.out.ret
        Smaller(a, b) ==
          IF last.arg.sort = S("startDate")
            THEN SeqLess(CodeUnits(a.startDate), CodeUnits(b.startDate))
            ELSE a.createdAt < b.createdAt
    IN \A k \in 1..(Len(ret) - 1) :
         IF last.arg.order = S("asc")
           THEN ~Smaller(ret[k + 1], ret[k])
           ELSE ~Smaller(ret[k], ret[k + 1])

\* sort=startDate, order=asc put a record created later in front of one
\* created earlier, because its startDate is the smaller string
C11_Witness ==
  /\ last.op = "listProjects"
  /\ last.out.kind = "OK"
  /\ last.arg.sort = S("startDate")
  /\ last.arg.order = S("asc")
  /\ Len(last.out.ret) >= 2
  /\ last.out.ret[1].id > last.out.ret[2].id
  /\ last.out.ret[1].startDate # last.out.ret[2].startDate

\* the fields of a stored project
ProjectFields ==
  {"id", "name", "clientName", "status", "startDate", "endDate",
   "isDeleted", "createdAt", "updatedAt"}

\* the body cut down to the five fields the API accepts
Accepted(body) ==
  Body(body.name, body.clientName, body.status, body.startDate,
       body.endDate, Undefined)

\* C12: a successful createProject returns one record and stores the same
\* record as the newest one; the record has isDeleted = false and createdAt =
\* updatedAt = the time of the call, it has the fields of a project and no
\* other, and the outcome is the one of the same request without the fields
\* outside {name, clientName, status, startDate, endDate}.
C12_CreatedRecordStamped ==
  (last.op = "createProject" /\ last.out.kind = "OK") =>
    /\ Len(last.out.ret) = 1
    /\ DOMAIN last.out.ret[1] = ProjectFields
    /\ last.out.ret[1].isDeleted = FALSE
    /\ last.out.ret[1].createdAt = now
    /\ last.out.ret[1].updatedAt = last.out.ret[1].createdAt
    /\ projects = Append(last.before, last.out.ret[1])
    /\ createProject(last.before, now, Accepted(last.arg)).out = last.out

\* a record was created, later than the start of the clock, from a body
\* that carries isDeleted = true, an id and timestamps of its own
C12_Witness ==
  /\ last.op = "createProject"
  /\ last.out.kind = "OK"
  /\ now > 0
  /\ "id" \in DOMAIN last.arg
  /\ "createdAt" \in DOMAIN last.arg
  /\ last.arg.isDeleted = Bool("true")
  /\ projects[Len(projects)].isDeleted = FALSE

\* C13: a record created from a body without status has status active; a
\* record created from a body whose status is active, on_hold or completed
\* has that status; no record is created from a body with any other status
\* value (null and the empty string included): the call fails with
\* VALIDATION_ERROR and stores nothing.
C13_CreatedStatus ==
  (last.op = "createProject") =>
    /\ (last.out.kind = "OK" /\ last.arg.status = Undefined) =>
         /\ last.out.ret[1].status = "active"
         /\ projects[Len(projects)].status = "active"
    /\ (last.out.kind = "OK" /\ last.arg.status \in ValidStatusValues) =>
         /\ last.out.ret[1].status = last.arg.status.v
         /\ projects[Len(projects)].status = last.arg.status.v
    /\ (last.arg.status # Undefined /\ last.arg.status \notin ValidStatusValues) =>
         /\ last.out.kind = "VALIDATION_ERROR"
         /\ projects = last.before

\* a record was created directly in the terminal status
C13_Witness ==
  /\ last.op = "createProject"
  /\ last.out.kind = "OK"
  /\ last.arg.status = S("completed")
  /\ Len(projects) = Len(last.before) + 1
  /\ projects[Len(projects)].status = "completed"

\* the value is text with a character that is not white space
NonEmptyText(x) ==
  x.t = "string" /\ \E i \in DOMAIN x.v : x.v[i] \notin WhiteSpace

\* the value is a string that parses as a date
ValidDate(x) == x.t = "string" /\ DateValue(x.v) # NaN

\* the rules of section 4.1 on a create body
CreateRules ==
  {"name", "clientName", "status", "startDate", "endDate", "endDateOrder"}

\* the body violates the rule
Violates(body, rule) ==
  CASE rule = "name" -> ~NonEmptyText(body.name)
    [] rule = "clientName" -> ~NonEmptyText(body.clientName)
    [] rule = "status" ->
         body.status # Undefined /\ body.status \notin ValidStatusValues
    [] rule = "startDate" -> ~ValidDate(body.startDate)
    [] rule = "endDate" ->
         body.endDate \notin {Undefined, Null} /\ ~ValidDate(body.endDate)
    [] rule = "endDateOrder" ->
         /\ ValidDate(body.startDate)
         /\ ValidDate(body.endDate)
         /\ DateValue(body.endDate.v) < DateValue(body.startDate.v)

\* the entries of the failure message that report the rule
EntriesOf(rule) ==
  CASE rule = "name" ->
         {"name is required and must be a non-empty string"}
    [] rule = "clientName" ->
         {"clientName is required and must be a non-empty string"}
    [] rule = "status" ->
         {"status must be one of: active, on_hold, completed"}
    [] rule = "startDate" ->
         {"startDate is required", "startDate must be a valid ISO date string"}
    [] rule = "endDate" -> {"endDate must be a valid ISO date string"}
    [] rule = "endDateOrder" -> {"endDate cannot be before startDate"}

\* C14: createProject fails exactly when the body violates at least one of
\* the rules on name, clientName, status, startDate and endDate, the failure
\* is one VALIDATION_ERROR that stores nothing, and its message has one entry
\* for each violated rule and no other entry.
C14_CollectedValidation ==
  (last.op = "createProject") =>
    LET violated == {rule \in CreateRules : Violates(last.arg, rule)}
        message == last.out.message
    IN /\ last.out.kind \in {"OK", "VALIDATION_ERROR"}
       /\ (last.out.kind = "VALIDATION_ERROR") <=> (violated # {})
       /\ (violated # {}) =>
            /\ projects = last.before
            /\ Len(message) = Cardinality(violated)
            /\ \A rule \in violated :
                 \E k \in DOMAIN message : message[k] \in EntriesOf(rule)

\* a body that violates the rules on all five fields was rejected with five
\* entries
C14_Witness ==
  /\ last.op = "createProject"
  /\ last.out.kind = "VALIDATION_ERROR"
  /\ Len(last.out.message) = 5
  /\ \A rule \in CreateRules \ {"endDateOrder"} : Violates(last.arg, rule)

\* the failure message reports the order of endDate and startDate
ReportsOrder(out) ==
  \E k \in DOMAIN out.message :
    out.message[k] = "endDate cannot be before startDate"

\* C15: a create whose startDate and endDate are valid dates with endDate
\* chronologically before startDate fails with VALIDATION_ERROR and the
\* message reports the order of the two; with a valid startDate and an
\* endDate that is the same day, a later day, absent or null the order is
\* not reported, and the create succeeds when no other rule is violated.
C15_EndBeforeStart ==
  (last.op = "createProject") =>
    LET start == last.arg.startDate
        end == last.arg.endDate
    IN /\ ( /\ ValidDate(start)
            /\ ValidDate(end)
            /\ DateValue(end.v) < DateValue(start.v) ) =>
            (last.out.kind = "VALIDATION_ERROR" /\ ReportsOrder(last.out))
       /\ ( /\ ValidDate(start)
            /\ \/ end \in {Undefined, Null}
               \/ ValidDate(end) /\ DateValue(end.v) >= DateValue(start.v) ) =>
            /\ ~ReportsOrder(last.out)
            /\ ( /\ NonEmptyText(last.arg.name)
                 /\ NonEmptyText(last.arg.clientName)
                 /\ ~Violates(last.arg, "status") ) => last.out.kind = "OK"

\* endDate 2026-01-01 before startDate 2026-06-01 on an otherwise valid
\* body: the order is the only thing reported
C15_Witness ==
  /\ last.op = "createProject"
  /\ last.arg.startDate = S("2026-06-01")
  /\ last.arg.endDate = S("2026-01-01")
  /\ last.out.kind = "VALIDATION_ERROR"
  /\ last.out.message = <<"endDate cannot be before startDate">>

\* C16: updateProjectStatus with a body whose status is missing or is not
\* active, on_hold or completed fails with VALIDATION_ERROR whatever the id
\* names, before any Store function is called, and leaves the record set as
\* it was.
C16_StatusUpdateValidation ==
  (last.op = "updateProjectStatus" /\ last.arg.status \notin ValidStatusValues) =>
    /\ last.out.kind = "VALIDATION_ERROR"
    /\ last.out.calls = <<>>
    /\ projects = last.before

\* an unknown status was requested for a visible record and was rejected
C16_Witness ==
  /\ last.op = "updateProjectStatus"
  /\ last.arg.status = S("bogus")
  /\ Visible(last.before, last.id)
  /\ last.out.kind = "VALIDATION_ERROR"
  /\ projects = last.before

\* C17: listProjects fails with VALIDATION_ERROR when the query gives a
\* status other than active, on_hold, completed, a sort other than createdAt,
\* startDate, or an order other than asc, desc; for every other query it
\* makes one call of Store.findAll and returns its result for the same
\* parameters.  A parameter that is the empty string counts as not given, as
\* in C9.  The record set is left as it was in both cases.
C17_ListValidation ==
  (last.op = "listProjects") =>
    LET BadStatus == /\ ~NotGiven(last.arg.status)
                     /\ last.arg.status \notin ValidStatusValues
        BadSort == /\ ~NotGiven(last.arg.sort)
                   /\ last.arg.sort \notin {S("createdAt"), S("startDate")}
        BadOrder == /\ ~NotGiven(last.arg.order)
                    /\ last.arg.order \notin {S("asc"), S("desc")}
    IN /\ projects = last.before
       /\ IF BadStatus \/ BadSort \/ BadOrder
            THEN last.out.kind = "VALIDATION_ERROR"
            ELSE /\ last.out.kind = "OK"
                 /\ last.out.calls = <<"findAll">>
                 /\ last.out.ret = StoreFindAll(last.before, last.arg)

\* a query with a recognised status and order and the sort field name was
\* rejected although there were records to list
C17_Witness ==
  /\ last.op = "listProjects"
  /\ last.arg.status = S("completed")
  /\ last.arg.sort = S("name")
  /\ last.arg.order = S("desc")
  /\ Visible(last.before, 1)
  /\ last.out.kind = "VALIDATION_ERROR"

\* C18 as stated: whatever has happened, every record the Store held is
\* still found by Store.findById.
C18_NeverRemoved ==
  (last.op # "idle") =>
    \A i \in DOMAIN last.before :
      StoreFindById(projects, last.before[i].id) # <<>>

\* C18, amended: no service operation removes a record.  After createProject,
\* listProjects, getProjectById, updateProjectStatus and deleteProject every
\* record the Store held before the call is still held, at its place, and
\* found by Store.findById, and the record a successful create returned is
\* held and found too.  Only Store.clear, the reset hook, removes records.
C18_KeptByService ==
  (last.op \notin {"idle", "clear"}) =>
    /\ Len(projects) >= Len(last.before)
    /\ \A i \in DOMAIN last.before :
         /\ projects[i].id = last.before[i].id
         /\ StoreFindById(projects, last.before[i].id) # <<>>
    /\ (last.op = "createProject" /\ last.out.kind = "OK") =>
         StoreFindById(projects, last.out.ret[1].id) = last.out.ret

\* a record was soft-deleted and Store.findById still finds it
C18_Witness ==
  /\ last.op = "deleteProject"
  /\ last.out.kind = "OK"
  /\ Len(projects) = Len(last.before)
  /\ StoreFindById(projects, last.id) # <<>>
  /\ StoreFindById(projects, last.id)[1].isDeleted

\* C19: no two stored records have the same id; a successful create gives
\* the new record an id that no record held before the call; and after any
\* service call every record held before it has the id it had.
C19_IdsUniqueImmutable ==
  /\ \A i, j \in DOMAIN projects :
       projects[i].id = projects[j].id => i = j
  /\ (last.op # "idle") =>
       \A i \in DOMAIN last.before :
         i \in DOMAIN projects /\ projects[i].id = last.before[i].id
  /\ (last.op = "createProject" /\ last.out.kind = "OK") =>
       /\ ~Stored(last.before, last.out.ret[1].id)
       /\ projects[Len(projects)].id = last.out.ret[1].id

\* a record was created while the Store held MaxProjects - 1 others, one
\* of them soft-deleted
C19_Witness ==
  /\ last.op = "createProject"
  /\ last.out.kind = "OK"
  /\ Len(last.before) = MaxProjects - 1
  /\ \E i \in DOMAIN last.before : last.before[i].isDeleted
  /\ ~Stored(last.before, last.out.ret[1].id)

\* C20: a service call leaves createdAt of every record as it was and never
\* lowers updatedAt; a call that changes a record (a status transition, a
\* soft delete) sets its updatedAt to the time of the call and leaves the
\* other records alone; updatedAt is never earlier than createdAt.
C20_Timestamps ==
  /\ \A i \in DOMAIN projects : projects[i].createdAt <= projects[i].updatedAt
  /\ (last.op # "idle") =>
       \A i \in DOMAIN last.before :
         /\ projects[i].createdAt = last.before[i].createdAt
         /\ projects[i].updatedAt >= last.before[i].updatedAt
         /\ (projects[i] # last.before[i]) =>
              (projects[i].id = last.id /\ projects[i].updatedAt = now)
  /\ ( /\ last.op = "updateProjectStatus"
       /\ last.out.kind = "OK"
       /\ Record(last.before, last.id).status # last.arg.status.v ) =>
       Record(projects, last.id).updatedAt = now
  /\ (last.op = "deleteProject" /\ last.out.kind = "OK") =>
       Record(projects, last.id).updatedAt = now

\* a status transition at a later time than the creation: updatedAt moved
\* to that time, createdAt stayed
C20_Witness ==
  /\ last.op = "updateProjectStatus"
  /\ last.out.kind = "OK"
  /\ Record(last.before, last.id).status # last.arg.status.v
  /\ Record(last.before, last.id).updatedAt < now
  /\ Record(projects, last.id).updatedAt = now
  /\ Record(projects, last.id).createdAt < now

ServiceOps ==
  {"createProject", "listProjects", "getProjectById",
   "updateProjectStatus", "deleteProject"}

\* C21: a service call that fails by a throw of the service or of a
\* validator fails with VALIDATION_ERROR and status 400, PROJECT_NOT_FOUND
\* and status 404, or INVALID_STATUS_TRANSITION and status 400; the only
\* other failures of a call are exceptions of the runtime raised inside a
\* Store function.  The error handler answers a failure of the three kinds
\* with its status, kind and message, and every other error with status 500
\* and the kind INTERNAL_SERVER_ERROR.
C21_TypedFailures ==
  /\ (last.op \in ServiceOps) =>
       \/ last.out.kind = "OK"
       \/ last.out.kind = "VALIDATION_ERROR" /\ last.out.statusCode = 400
       \/ last.out.kind = "PROJECT_NOT_FOUND" /\ last.out.statusCode = 404
       \/ last.out.kind = "INVALID_STATUS_TRANSITION"
            /\ last.out.statusCode = 400
       \/ last.out.kind = "TypeError" /\ last.out.calls = <<"findAll">>
  /\ (last.op = "errorHandler") =>
       IF last.arg.kind \in {"VALIDATION_ERROR", "PROJECT_NOT_FOUND",
                             "INVALID_STATUS_TRANSITION"}
         THEN /\ last.out.status = last.arg.statusCode
              /\ last.out.code = last.arg.kind
              /\ last.out.message = last.arg.message
         ELSE /\ last.out.status = 500
              /\ last.out.code = "INTERNAL_SERVER_ERROR"

\* the error handler answered a rejected transition with status 400, the
\* kind and the message of the failure
C21_Witness ==
  /\ last.op = "errorHandler"
  /\ last.arg.kind = "INVALID_STATUS_TRANSITION"
  /\ last.out.status = 400
  /\ last.out.code = "INVALID_STATUS_TRANSITION"
  /\ last.out.message = last.arg.message
  /\ Len(last.out.message) > 0

\* what a Store call returns and leaves behind when it runs from its first
\* statement to its return on the record set ps, reading the clock at t
AloneOn(ps, t, call) ==
  CASE call.op = "create" -> StoreCreate(ps, t, call.arg)
    [] call.op = "update" -> StoreUpdate(ps, t, call.id, call.arg)
    [] call.op = "findById" ->
         [store |-> ps, ret |-> StoreFindById(ps, call.id)]
    [] call.op = "findAll" ->
         [store |-> ps, ret |-> StoreFindAll(ps, call.arg)]
    [] call.op = "clear" -> [store |-> StoreClear, ret |-> <<>>]

\* a step after which every call that returned in it has returned, and left
\* in the Store, what the operation gives on the record set of its call; no
\* two calls are inside their bodies; every stored record has all its fields
AtomicStep ==
  /\ \A c \in Callers :
       (tasks[c].pc \notin {"idle", "done"} /\ tasks'[c].pc = "done")
       => LET call == tasks[c]
              alone == AloneOn(call.before,
                               IF call.op = "create" THEN call.t ELSE now,
                               call)
          IN /\ projects' = alone.store
             /\ tasks'[c].ret = alone.ret
  /\ \A c \in Callers, d \in Callers :
       (c # d /\ tasks'[c].pc \notin {"idle", "done"})
       => tasks'[d].pc \in {"idle", "done"}
  /\ \A i \in DOMAIN projects' : DOMAIN projects'[i] = ProjectFields

\* C22: with the Store calls of several callers in flight, every call that
\* returns has returned, and left in the Store, what the operation gives
\* when it is applied in one step to the record set the Store held when the
\* call was made; no two calls are inside their bodies together; and every
\* record the Store holds at any moment (so every record a reader can be
\* handed) has all nine fields.
C22_AtomicPerCall == [][AtomicStep]_vars

\* the update of caller 1 has returned and its result is not yet taken; the
\* findById of caller 2, called after it, returned the record with the new
\* status and the new updatedAt together
C22_Witness ==
  /\ tasks[1].op = "update" /\ tasks[1].pc = "done"
  /\ tasks[2].op = "findById" /\ tasks[2].pc = "done"
  /\ Len(tasks[1].ret) = 1 /\ Len(tasks[2].ret) = 1
  /\ tasks[2].ret[1].status = "on_hold"
  /\ tasks[2].ret[1].updatedAt > tasks[2].ret[1].createdAt
  /\ tasks[2].ret = tasks[1].ret

\* the record with that id is stored with that status
HasStatus(id, status) ==
  Stored(projects, id) /\ Record(projects, id).status = status

ModifiedBy(c) ==
  /\ tasks[c].pc = "done" /\ tasks'[c].pc = "done"
  /\ tasks'[c].ret # tasks[c].ret

\* a step in which a findById or findAll of the caller returned
ReadBy(c) ==
  /\ tasks[c].op \in {"findById", "findAll"}
  /\ tasks[c].pc = "called" /\ tasks'[c].pc = "done"

\* a step in which no caller's write into a record it holds reaches the
\* Store, and in which a read returns the created names, none written by a
\* caller (the Store's update is never asked to change a name)
CopyStep ==
  \A c \in Callers :
    /\ ModifiedBy(c) => projects' = projects
    /\ ReadBy(c)
         => /\ tasks'[c].ret = AloneOn(projects, now, tasks[c]).ret
            /\ \A k \in DOMAIN tasks'[c].ret :
                 tasks'[c].ret[k].name \in {data.name : data \in StoreData}

\* C24: a record returned by create, findById, findAll or update is a copy:
\* when a caller writes into a record it was handed, the record set of the
\* Store stays as it was, and every findById and findAll afterwards returns
\* the values the Store holds, in which no caller's write appears.
C24_ReturnedAreCopies == [][CopyStep]_vars

\* caller 1 changed the name and the flag of the record update returned to
\* it; the findById of caller 2 returned the record as the Store holds it
C24_Witness ==
  /\ tasks[1].op = "update" /\ tasks[1].pc = "done"
  /\ Len(tasks[1].ret) = 1
  /\ tasks[1].ret[1].name = CallerChanges.name
  /\ tasks[1].ret[1].isDeleted
  /\ tasks[2].op = "findById" /\ tasks[2].pc = "done"
  /\ Len(tasks[2].ret) = 1
  /\ tasks[2].ret[1].id = tasks[1].ret[1].id
  /\ tasks[2].ret[1].name = GoodName.v
  /\ ~tasks[2].ret[1].isDeleted
  /\ tasks[2].ret[1] = Record(projects, tasks[1].ret[1].id)

\* a step in which an update of the caller returned
UpdateReturnedTo(c) ==
  /\ tasks[c].op = "update"
  /\ tasks[c].pc \in {"called", "found"} /\ tasks'[c].pc = "done"

\* a step in which a returning update has changed, in the record of its id,
\* the fields it was given and updatedAt and nothing else, or has found no
\* record, returned null and changed nothing
UpdateFrame ==
  \A c \in Callers :
    UpdateReturnedTo(c)
    => LET index == FindIndex(projects, tasks[c].id)
           updates == tasks[c].arg
       IN IF index = 0
            THEN tasks'[c].ret = <<>> /\ projects' = projects
            ELSE /\ Len(projects') = Len(projects)
                 /\ \A i \in DOMAIN projects :
                      i # index => projects'[i] = projects[i]
                 /\ DOMAIN projects'[index] = DOMAIN projects[index]
                 /\ \A f \in DOMAIN projects[index] :
                      IF f \in DOMAIN updates
                        THEN projects'[index][f] = updates[f]
                      ELSE IF f = "updatedAt"
                        THEN projects'[index][f] = now
                      ELSE projects'[index][f] = projects[index][f]
                 /\ tasks'[c].ret = <<projects'[index]>>

\* C25: Store.update(id, fields) changes, in the record with that id, only
\* the given fields and updatedAt, and no other record: a status update
\* changes status and updatedAt, a soft delete isDeleted and updatedAt, and
\* id, name, clientName, startDate, endDate and createdAt stay; on an id no
\* record has it returns null and leaves the record set as it was.
C25_UpdateFrame == [][UpdateFrame]_vars

\* with two records stored, the update of the first returned it on hold,
\* stamped after its creation, the other fields as created
C25_Witness ==
  /\ tasks[1].op = "update" /\ tasks[1].pc = "done"
  /\ Len(tasks[1].ret) = 1
  /\ Len(projects) = 2
  /\ tasks[1].ret[1] = projects[1]
  /\ projects[1].status = "on_hold"
  /\ ~projects[1].isDeleted
  /\ projects[1].updatedAt > projects[1].createdAt
  /\ projects[2].updatedAt = projects[2].createdAt

\* C26: in the result of a successful listProjects two records with the
\* same value of the sort field (startDate when sort is startDate, createdAt
\* otherwise) stand in the order in which they were inserted into the Store,
\* whatever the order parameter is.
C26_TiesKeepInsertionOrder ==
  (last.op = "listProjects" /\ last.out.kind = "OK") =>
    LET ret == last.out.ret
        SameKey(a, b) ==
          IF last.arg.sort = S("startDate")
            THEN a.startDate = b.startDate
            ELSE a.createdAt = b.createdAt
    IN \A k \in DOMAIN ret, l \in DOMAIN ret :
         (k < l /\ SameKey(ret[k], ret[l]))
         => FindIndex(last.before, ret[k].id)
              < FindIndex(last.before, ret[l].id)

\* sort=startDate, order=desc: two records with the same startDate are
\* listed first inserted first
C26_Witness ==
  /\ last.op = "listProjects"
  /\ last.out.kind = "OK"
  /\ last.arg.sort = S("startDate")
  /\ last.arg.order = S("desc")
  /\ Len(last.out.ret) = 2
  /\ last.out.ret[1].startDate = last.out.ret[2].startDate
  /\ FindIndex(last.before, last.out.ret[1].id) = 1
  /\ FindIndex(last.before, last.out.ret[2].id) = 2

\* the options with the sort field and the order the claim names in place
\* of an unknown sort field and of an absent order
Normalised(options) ==
  [options EXCEPT
     !.sort = IF options.sort \in {S("createdAt"), S("startDate")}
                THEN options.sort ELSE S("createdAt"),
     !.order = IF options.order = Undefined THEN S("desc") ELSE options.order]

\* a step in which a returning findAll has returned what findAll returns for
\* the normalised options
FindAllFallback ==
  \A c \in Callers :
    (tasks[c].op = "findAll" /\ tasks[c].pc = "called")
    => /\ tasks'[c].pc = "done" \/ tasks'[c] = tasks[c]
       /\ tasks'[c].pc = "done"
            => tasks'[c].ret = StoreFindAll(projects,
                                            Normalised(tasks[c].arg))

\* C27: Store.findAll with a sort field other than createdAt and startDate
\* returns the sequence it returns with sort = createdAt, and without an
\* order the sequence it returns with order = desc; in both cases the call
\* returns, it does not throw.
C27_FindAllFallback == [][FindAllFallback]_vars

\* findAll was called with sort = name and no order, on two records created
\* at two readings of the clock, the later one with the smaller startDate:
\* the later one is returned first
C27_Witness ==
  /\ tasks[2].op = "findAll" /\ tasks[2].pc = "done"
  /\ tasks[2].arg.sort = S("name") /\ tasks[2].arg.order = Undefined
  /\ Len(tasks[2].ret) = 2
  /\ tasks[2].ret[1].createdAt > tasks[2].ret[2].createdAt
  /\ tasks[2].ret[1].startDate = "2026-01-01"
  /\ tasks[2].ret[2].startDate = "2026-06-01"
  /\ tasks[2].ret[1].id = 2

\* a step in which a returning findById has returned the record of its id,
\* soft-deleted or not, and null only when no record has the id; the same
\* record, when soft-deleted, is kept back by getProjectById and by findAll
FindByIdUnfiltered ==
  \A c \in Callers :
    (tasks[c].op = "findById" /\ tasks[c].pc = "called"
     /\ tasks'[c].pc = "done")
    => LET id == tasks[c].id IN
       /\ Stored(projects, id) => tasks'[c].ret = <<Record(projects, id)>>
       /\ ~Stored(projects, id) => tasks'[c].ret = <<>>
       /\ (Stored(projects, id) /\ Record(projects, id).isDeleted)
          => /\ tasks'[c].ret[1].isDeleted
             /\ getProjectById(projects, id).out.kind = "PROJECT_NOT_FOUND"
             /\ \A options \in StoreOptions :
                  \A k \in DOMAIN StoreFindAll(projects, options) :
                    StoreFindAll(projects, options)[k].id # id

\* C28: Store.findById does not look at isDeleted: for the id of a
\* soft-deleted record it returns that record, with isDeleted = true; the
\* service's getProjectById answers PROJECT_NOT_FOUND for that id and
\* Store.findAll leaves the record out.
C28_FindByIdUnfiltered == [][FindByIdUnfiltered]_vars

\* findById returned a record whose isDeleted is true, as stored
C28_Witness ==
  \E c \in Callers :
    /\ tasks[c].op = "findById" /\ tasks[c].pc = "done"
    /\ Len(tasks[c].ret) = 1
    /\ tasks[c].ret[1].isDeleted
    /\ tasks[c].ret[1] = Record(projects, tasks[c].id)
    /\ tasks[c].ret[1].updatedAt > tasks[c].ret[1].createdAt

\* C29: every record the Store holds after any sequence of service
\* operations has a status of the enumeration, a name and a clientName that
\* are not empty, and an endDate that is null or a date not before its
\* startDate.
C29_StoredRecordsValid ==
  \A i \in DOMAIN projects :
    /\ SeqIncludes(VALID_STATUSES, projects[i].status)
    /\ Len(projects[i].name) > 0
    /\ Len(projects[i].clientName) > 0
    /\ \/ projects[i].endDate = Null
       \/ /\ projects[i].endDate.t = "string"
          /\ DateValue(projects[i].endDate.v) # NaN
          /\ DateValue(projects[i].endDate.v)
               >= DateValue(projects[i].startDate)

\* two records are stored: one created without status and endDate and put on
\* hold by a status update, one created with an endDate equal to its
\* startDate
C29_Witness ==
  /\ last.op = "updateProjectStatus"
  /\ last.out.kind = "OK"
  /\ Len(projects) = 2
  /\ Record(last.before, last.id).status = "active"
  /\ Record(projects, last.id).status = "on_hold"
  /\ Record(projects, last.id).endDate = Null
  /\ \E i \in DOMAIN projects :
       /\ projects[i].id # last.id
       /\ projects[i].endDate = S(projects[i].startDate)

\* C30: updateProjectStatus validates the body first, then looks the record
\* up, then applies the transition table: on an id that names no record or
\* a soft-deleted one, a missing or unrecognised status fails with
\* VALIDATION_ERROR and a valid status with PROJECT_NOT_FOUND;
\* INVALID_STATUS_TRANSITION is reported only for a valid status on a visible
\* record, and PROJECT_NOT_FOUND only for a valid status.
C30_CheckOrder ==
  (last.op = "updateProjectStatus") =>
    LET valid == last.arg.status \in ValidStatusValues
        visible == Visible(last.before, last.id)
    IN /\ (~valid /\ ~visible) => last.out.kind = "VALIDATION_ERROR"
       /\ (valid /\ ~visible) => last.out.kind = "PROJECT_NOT_FOUND"
       /\ last.out.kind = "INVALID_STATUS_TRANSITION" => (valid /\ visible)
       /\ last.out.kind = "PROJECT_NOT_FOUND" => (valid /\ ~visible)
       /\ last.out.kind # "OK" => projects = last.before

\* active was requested for a soft-deleted record whose status is completed:
\* the answer is PROJECT_NOT_FOUND
C30_Witness ==
  /\ last.op = "updateProjectStatus"
  /\ last.arg.status = S("active")
  /\ Stored(last.before, last.id)
  /\ Record(last.before, last.id).isDeleted
  /\ Record(last.before, last.id).status = "completed"
  /\ last.out.kind = "PROJECT_NOT_FOUND"
  /\ last.out.statusCode = 404

\* C31: a service operation that fails with VALIDATION_ERROR,
\* PROJECT_NOT_FOUND or INVALID_STATUS_TRANSITION leaves the record set of
\* the Store as it was before the call: the same records in the same order,
\* every field of every record (status, isDeleted, updatedAt) unchanged.
C31_FailureChangesNothing ==
  (/\ last.op \in ServiceOps
   /\ last.out.kind \in {"VALIDATION_ERROR", "PROJECT_NOT_FOUND",
                         "INVALID_STATUS_TRANSITION"})
  => projects = last.before

\* a second delete of a record, at a later reading of the clock, failed with
\* PROJECT_NOT_FOUND and the updatedAt of the record is still that of the
\* first delete
C31_Witness ==
  /\ last.op = "deleteProject"
  /\ last.out.kind = "PROJECT_NOT_FOUND"
  /\ Stored(last.before, last.id)
  /\ Record(last.before, last.id).isDeleted
  /\ Record(projects, last.id).updatedAt < now
  /\ projects = last.before

\* C32: listProjects and getProjectById, whether they succeed or fail,
\* leave the Store as it was: the same records, every field of each
\* (updatedAt included), in the same order; the sort of a list result does
\* not reorder the stored records.
C32_ReadsChangeNothing ==
  (last.op \in {"listProjects", "getProjectById"}) => projects = last.before

\* a list sorted by createdAt, latest first, returned two records in the
\* reverse of the order in which the Store holds them, before and after
C32_Witness ==
  /\ last.op = "listProjects"
  /\ last.out.kind = "OK"
  /\ last.arg.order = S("desc")
  /\ Len(last.out.ret) = 2
  /\ Len(projects) = 2
  /\ last.out.ret[1] = projects[2]
  /\ last.out.ret[2] = projects[1]
  /\ projects[1].createdAt < projects[2].createdAt
  /\ projects = last.before

\* C33: with the service operations served one at a time, a record that was
\* soft-deleted when an operation began has every field (status, updatedAt
\* and the others) unchanged when the operation has ended; every id whose
\* delete succeeded names such a record.
C33_DeletedIsFrozen ==
  /\ \A id \in deletedOk :
       Stored(projects, id) /\ Record(projects, id).isDeleted
  /\ (last.op # "idle") =>
       \A i \in DOMAIN last.before :
         last.before[i].isDeleted
           => (i \in DOMAIN projects /\ projects[i] = last.before[i])

\* completed was requested, at a later reading of the clock, for a record on
\* hold whose delete had succeeded: the request failed and the record is as
\* the delete left it
C33_Witness ==
  /\ last.op = "updateProjectStatus"
  /\ last.arg.status = S("completed")
  /\ last.id \in deletedOk
  /\ Record(last.before, last.id).status = "on_hold"
  /\ Record(last.before, last.id).updatedAt < now
  /\ last.out.kind = "PROJECT_NOT_FOUND"
  /\ Record(projects, last.id) = Record(last.before, last.id)

\* a step that changes the status of a stored record goes from the status
\* stored before the step to one the transition table allows for it
C34_StatusStep ==
  \A i \in DOMAIN projects :
    (i \in DOMAIN projects' /\ projects'[i].status # projects[i].status)
      => /\ projects[i].status \in DOMAIN ALLOWED_TRANSITIONS
         /\ SeqIncludes(ALLOWED_TRANSITIONS[projects[i].status],
                        projects'[i].status)

\* C34: with two updateProjectStatus calls for one record in flight together
\* and interleaving at their awaits, every change of the stored status goes
\* from the status stored immediately before the write to a status the
\* transition table allows for it; the stored status never changes from
\* completed to active or on_hold.
C34_WritesFollowTable == [][C34_StatusStep]_vars

\* one call has returned the record as completed and the other, which read
\* it as active before that write, has since stored on_hold
C34_Witness ==
  \E c \in Callers, d \in Callers :
    /\ c # d
    /\ tasks[c].op = "updateProjectStatus"
    /\ tasks[c].pc = "done"
    /\ tasks[c].out.kind = "OK"
    /\ tasks[c].out.ret[1].status = "completed"
    /\ tasks[d].op = "updateProjectStatus"
    /\ tasks[d].pc = "written"
    /\ tasks[d].ret[1].status = "on_hold"
    /\ Record(projects, tasks[d].id).status = "on_hold"

\* a step leaves every soft-deleted record's status and updatedAt alone, and
\* no updateProjectStatus call has returned a soft-deleted record after it
C35_DeleteStep ==
  /\ \A i \in DOMAIN projects :
       projects[i].isDeleted
         => /\ i \in DOMAIN projects'
            /\ projects'[i].status = projects[i].status
            /\ projects'[i].updatedAt = projects[i].updatedAt
  /\ \A c \in Callers :
       (/\ tasks'[c].op = "updateProjectStatus"
        /\ tasks'[c].pc = "done"
        /\ tasks'[c].out.kind = "OK")
         => ~tasks'[c].out.ret[1].isDeleted

\* C35: with an updateProjectStatus call and a deleteProject call for one
\* record in flight together and interleaving at their awaits, the status
\* update never writes to the record after the delete has set isDeleted:
\* updateProjectStatus never returns a record whose isDeleted is true, and
\* the status and updatedAt of a soft-deleted record do not change.
C35_NoWriteAfterDelete == [][C35_DeleteStep]_vars

\* deleteProject has returned, and updateProjectStatus, which read the record
\* before the delete wrote, has returned it soft-deleted with the new status
C35_Witness ==
  \E c \in Callers, d \in Callers :
    /\ tasks[d].op = "deleteProject"
    /\ tasks[d].pc = "done"
    /\ tasks[d].out.kind = "OK"
    /\ tasks[c].op = "updateProjectStatus"
    /\ tasks[c].pc = "done"
    /\ tasks[c].out.kind = "OK"
    /\ tasks[c].out.ret[1].isDeleted
    /\ tasks[c].out.ret[1].status = "on_hold"
    /\ Record(projects, tasks[c].id) = tasks[c].out.ret[1]

====
